---- MODULE Spec2Model ----
(***************************************************************************)
(* IS20 token canister: the balance / allowance / ledger state machine of  *)
(* token/api (canister.rs, canister/erc20_transactions.rs, ledger.rs,      *)
(* state.rs, types/tx_record.rs) and the auction settlement of             *)
(* canister/is20_auction.rs.                                               *)
(*                                                                         *)
(* Scaling.  TLC integers are 32 bit, so the 128-bit token quantity is     *)
(* modelled as 0..MAX_TOKENS with the same checked arithmetic (None on     *)
(* overflow / underflow), and the history limits of ledger.rs are scaled   *)
(* to a few records.  Timestamps are not modelled.                         *)
(***************************************************************************)
EXTENDS Integers, Sequences, FiniteSets, TLC

\* ------------------------------------------------------------------ bounds
\* Largest representable token quantity (stands for u128::MAX).
MAX_TOKENS == 10
\* Calls are taken while the ledger has assigned at most MaxTxs ids
\* (MaxTokenTxs in the specification of the token operations alone,
\* MaxSettingsTxs in the one that interleaves the setters).
MaxTxs == 3
MaxTokenTxs == 4
MaxSettingsTxs == 2
\* The allowance scenario of the unit tests takes up to MaxScenarioTxs ids.
MaxScenarioTxs == 6

\* The ledger alone is followed up to MaxLedgerTxs ids (several truncations),
\* and with the setters and the auction beside it up to MaxHistoryTxs ids.
MaxLedgerTxs == 7
MaxHistoryTxs == 4
\* Ids beyond the width of usize are reached within MaxWideLedgerTxs ids.
MaxWideLedgerTxs == 9
\* The auction is followed up to MaxAuctionTxs ids, with bids accepted while
\* cycles_since_auction stays within MaxAuctionCycles.
MaxAuctionTxs == 4
MaxAuctionCycles == 6
\* Largest denominator of the fee ratios whose split is examined.
MaxRatioDen == 6

\* --------------------------------------------------------------- principals
alice == "alice"
bob == "bob"
john == "john"
\* Principal::management_canister()
auction_principal == "aaaaa-aa"

\* Principals that can sign a call.
Users == {alice, bob, john}
Principals == Users \cup {auction_principal}

\* Option<Tokens128>
None == -1
\* Option<Principal>::None
NoPrincipal == "None"
FeeLimits == {None, 1}

\* ---------------------------------------------------------------- Tokens128
\* Tokens128 + Tokens128 -> Option<Tokens128>
CheckedAdd(a, b) == IF a + b > MAX_TOKENS THEN None ELSE a + b
\* Tokens128 - Tokens128 -> Option<Tokens128>
CheckedSub(a, b) == IF a < b THEN None ELSE a - b

\* --------------------------------------------------------------- HashMap
MapInsert(m, k, v) == (k :> v) @@ m
MapRemove(m, k) == [x \in (DOMAIN m) \ {k} |-> m[x]]
EmptyMap == [x \in {} |-> 0]

\* ----------------------------------------------------------------- results
\* TxReceipt = Result<TxId, TxError>; ids carries a Vec<TxId> result.
Ok(id) == [tag |-> "Ok", err |-> "", id |-> id, ids |-> <<id>>]
OkIds(ids) == [tag |-> "Ok", err |-> "", id |-> None, ids |-> ids]
Err(e) == [tag |-> "Err", err |-> e, id |-> None, ids |-> <<>>]
\* A failed expect()/unwrap(): the message traps and the host rolls it back.
Trap(msg) == [tag |-> "Trap", err |-> msg, id |-> None, ids |-> <<>>]

\* ------------------------------------------------------ types/tx_record.rs
TxRecord_transfer(index, from, to, amount, fee) ==
    [caller |-> from, index |-> index, from |-> from, to |-> to,
     amount |-> amount, fee |-> fee, status |-> "Succeeded",
     operation |-> "Transfer"]

TxRecord_transfer_from(index, caller, from, to, amount, fee) ==
    [caller |-> caller, index |-> index, from |-> from, to |-> to,
     amount |-> amount, fee |-> fee, status |-> "Succeeded",
     operation |-> "TransferFrom"]

\* An Approve record that holds the allowance set instead of the amount asked.
TxRecord_approve_with_fee(index, from, to, amount, fee) ==
    [caller |-> from, index |-> index, from |-> from, to |-> to,
     amount |-> amount + fee, fee |-> fee, status |-> "Succeeded",
     operation |-> "Approve"]

TxRecord_approve(index, from, to, amount, fee) ==
    [caller |-> from, index |-> index, from |-> from, to |-> to,
     amount |-> amount, fee |-> fee, status |-> "Succeeded",
     operation |-> "Approve"]

TxRecord_mint(index, from, to, amount) ==
    [caller |-> from, index |-> index, from |-> from, to |-> to,
     amount |-> amount, fee |-> 0, status |-> "Succeeded",
     operation |-> "Mint"]

TxRecord_burn(index, caller, from, amount) ==
    [caller |-> caller, index |-> index, from |-> from, to |-> from,
     amount |-> amount, fee |-> 0, status |-> "Succeeded",
     operation |-> "Burn"]

TxRecord_auction(index, to, amount) ==
    [caller |-> to, index |-> index, from |-> to, to |-> to,
     amount |-> amount, fee |-> 0, status |-> "Succeeded",
     operation |-> "Auction"]

\* ---------------------------------------------------------------- ledger.rs
\* Scaled from 1_000_000 and 10_000; the batch holds more than one record, so
\* that the records of one batch differ in how long they are retained.
MAX_HISTORY_LENGTH == 1
HISTORY_REMOVAL_BATCH_SIZE == 2

EmptyLedger == [history |-> <<>>, vec_offset |-> 0, notifications |-> EmptyMap]

len(ledger) == ledger.vec_offset + Len(ledger.history)

next_id(ledger) == ledger.vec_offset + Len(ledger.history)

\* usize::MAX of the canister's wasm32 target (2^32 - 1) against the u64 TxId,
\* scaled: above the history limits, below the largest id.
USIZE_MAX == 7

get_index(ledger, id) ==
    IF id < ledger.vec_offset \/ id > USIZE_MAX THEN None ELSE id - ledger.vec_offset

\* Option<TxRecord>
NoRecord == <<>>
Some(record) == <<record>>

\* Vec::get: None past the end.
get(ledger, id) ==
    LET i == get_index(ledger, id) IN
    IF i = None \/ i >= Len(ledger.history) THEN NoRecord ELSE Some(ledger.history[i + 1])

\* push that drops the oldest batch without advancing vec_offset.
push_keeps_vec_offset(ledger, record) ==
    LET h == Append(ledger.history, record)
        n == MapInsert(ledger.notifications, record.index, "None")
    IN  IF Len(h) > MAX_HISTORY_LENGTH + HISTORY_REMOVAL_BATCH_SIZE
        THEN [history |-> SubSeq(h, HISTORY_REMOVAL_BATCH_SIZE + 1, Len(h)),
              vec_offset |-> ledger.vec_offset,
              notifications |->
                  [k \in (DOMAIN n) \ {h[i].index : i \in 1..HISTORY_REMOVAL_BATCH_SIZE}
                      |-> n[k]]]
        ELSE [history |-> h, vec_offset |-> ledger.vec_offset, notifications |-> n]

\* push that truncates as soon as the history exceeds MAX_HISTORY_LENGTH.
push_truncates_at_max_history(ledger, record) ==
    LET h == Append(ledger.history, record)
        n == MapInsert(ledger.notifications, record.index, "None")
    IN  IF Len(h) > MAX_HISTORY_LENGTH
        THEN [history |-> SubSeq(h, HISTORY_REMOVAL_BATCH_SIZE + 1, Len(h)),
              vec_offset |-> ledger.vec_offset + HISTORY_REMOVAL_BATCH_SIZE,
              notifications |->
                  [k \in (DOMAIN n) \ {h[i].index : i \in 1..HISTORY_REMOVAL_BATCH_SIZE}
                      |-> n[k]]]
        ELSE [history |-> h, vec_offset |-> ledger.vec_offset, notifications |-> n]

\* push that cuts the history back to MAX_HISTORY_LENGTH records.
push_cuts_to_max_history(ledger, record) ==
    LET h == Append(ledger.history, record)
        n == MapInsert(ledger.notifications, record.index, "None")
        cut == Len(h) - MAX_HISTORY_LENGTH
    IN  IF Len(h) > MAX_HISTORY_LENGTH + HISTORY_REMOVAL_BATCH_SIZE
        THEN [history |-> SubSeq(h, cut + 1, Len(h)),
              vec_offset |-> ledger.vec_offset + cut,
              notifications |->
                  [k \in (DOMAIN n) \ {h[i].index : i \in 1..cut} |-> n[k]]]
        ELSE [history |-> h, vec_offset |-> ledger.vec_offset, notifications |-> n]

\* push that stamps the retained records with the fee of the new one.
push_restamps_fee(ledger, record) ==
    LET h == Append([i \in 1..Len(ledger.history) |->
                        [ledger.history[i] EXCEPT !.fee = record.fee]], record)
        n == MapInsert(ledger.notifications, record.index, "None")
    IN  IF Len(h) > MAX_HISTORY_LENGTH + HISTORY_REMOVAL_BATCH_SIZE
        THEN [history |-> SubSeq(h, HISTORY_REMOVAL_BATCH_SIZE + 1, Len(h)),
              vec_offset |-> ledger.vec_offset + HISTORY_REMOVAL_BATCH_SIZE,
              notifications |->
                  [k \in (DOMAIN n) \ {h[i].index : i \in 1..HISTORY_REMOVAL_BATCH_SIZE}
                      |-> n[k]]]
        ELSE [history |-> h, vec_offset |-> ledger.vec_offset, notifications |-> n]

\* push that leaves the notification entries of the discarded records behind.
push_keeps_notifications(ledger, record) ==
    LET h == Append(ledger.history, record)
        n == MapInsert(ledger.notifications, record.index, "None")
    IN  IF Len(h) > MAX_HISTORY_LENGTH + HISTORY_REMOVAL_BATCH_SIZE
        THEN [history |-> SubSeq(h, HISTORY_REMOVAL_BATCH_SIZE + 1, Len(h)),
              vec_offset |-> ledger.vec_offset + HISTORY_REMOVAL_BATCH_SIZE,
              notifications |-> n]
        ELSE [history |-> h, vec_offset |-> ledger.vec_offset, notifications |-> n]

push(ledger, record) ==
    LET h == Append(ledger.history, record)
        n == MapInsert(ledger.notifications, record.index, "None")
    IN  IF Len(h) > MAX_HISTORY_LENGTH + HISTORY_REMOVAL_BATCH_SIZE
        THEN [history |-> SubSeq(h, HISTORY_REMOVAL_BATCH_SIZE + 1, Len(h)),
              vec_offset |-> ledger.vec_offset + HISTORY_REMOVAL_BATCH_SIZE,
              notifications |->
                  [k \in (DOMAIN n) \ {h[i].index : i \in 1..HISTORY_REMOVAL_BATCH_SIZE}
                      |-> n[k]]]
        ELSE [history |-> h, vec_offset |-> ledger.vec_offset, notifications |-> n]

\* iter().rev()
Reverse(seq) == [i \in 1..Len(seq) |-> seq[Len(seq) + 1 - i]]
\* take(n)
Take(seq, n) == SubSeq(seq, 1, IF n < Len(seq) THEN n ELSE Len(seq))

\* get_transactions that walks the history oldest first.
get_transactions_oldest_first(ledger, who, count, transaction_id) ==
    LET by_who(tx) == who = NoPrincipal \/ who = tx.from \/ who = tx.to \/ who = tx.caller
        by_id(tx) == transaction_id = None \/ transaction_id >= tx.index
        transactions == Take(SelectSeq(SelectSeq(ledger.history, by_who), by_id),
                             count + 1)
    IN  IF Len(transactions) = count + 1
        THEN [result |-> SubSeq(transactions, 1, count),
              next |-> transactions[count + 1].index]
        ELSE [result |-> transactions, next |-> None]

\* get_transactions that reports the last record it returns as next.
get_transactions_next_is_returned(ledger, who, count, transaction_id) ==
    LET by_who(tx) == who = NoPrincipal \/ who = tx.from \/ who = tx.to \/ who = tx.caller
        by_id(tx) == transaction_id = None \/ transaction_id >= tx.index
        transactions == Take(SelectSeq(SelectSeq(Reverse(ledger.history), by_who), by_id),
                             count + 1)
    IN  IF Len(transactions) = count + 1 /\ count > 0
        THEN [result |-> SubSeq(transactions, 1, count),
              next |-> transactions[count].index]
        ELSE [result |-> Take(transactions, count), next |-> None]

\* who: Option<Principal> ("None" or a principal); transaction_id: Option<TxId>.
\* get_transactions whose `next` points past the record left out.
get_transactions_next_skips_one(ledger, who, count, transaction_id) ==
    LET by_who(tx) == who = NoPrincipal \/ who = tx.from \/ who = tx.to \/ who = tx.caller
        by_id(tx) == transaction_id = None \/ transaction_id >= tx.index
        transactions == Take(SelectSeq(SelectSeq(Reverse(ledger.history), by_who), by_id),
                             count + 1)
    IN  IF Len(transactions) = count + 1 /\ transactions[count + 1].index > 0
        THEN [result |-> SubSeq(transactions, 1, count),
              next |-> transactions[count + 1].index - 1]
        ELSE [result |-> Take(transactions, count), next |-> None]

get_transactions(ledger, who, count, transaction_id) ==
    LET by_who(tx) == who = NoPrincipal \/ who = tx.from \/ who = tx.to \/ who = tx.caller
        by_id(tx) == transaction_id = None \/ transaction_id >= tx.index
        transactions == Take(SelectSeq(SelectSeq(Reverse(ledger.history), by_who), by_id),
                             count + 1)
    IN  IF Len(transactions) = count + 1
        THEN [result |-> SubSeq(transactions, 1, count),
              next |-> transactions[count + 1].index]
        ELSE [result |-> transactions, next |-> None]

\* Each returns the ledger after the append and the id it assigned.
ledger_transfer(ledger, from, to, amount, fee) ==
    LET id == next_id(ledger) IN
    [ledger |-> push(ledger, TxRecord_transfer(id, from, to, amount, fee)), id |-> id]

ledger_transfer_from(ledger, caller, from, to, amount, fee) ==
    LET id == next_id(ledger) IN
    [ledger |-> push(ledger, TxRecord_transfer_from(id, caller, from, to, amount, fee)),
     id |-> id]

ledger_approve(ledger, from, to, amount, fee) ==
    LET id == next_id(ledger) IN
    [ledger |-> push(ledger, TxRecord_approve(id, from, to, amount, fee)), id |-> id]

ledger_mint(ledger, from, to, amount) ==
    LET id == len(ledger) IN
    [ledger |-> push(ledger, TxRecord_mint(id, from, to, amount)), id |-> id]

ledger_burn(ledger, caller, from, amount) ==
    LET id == next_id(ledger) IN
    [ledger |-> push(ledger, TxRecord_burn(id, caller, from, amount)), id |-> id]

\* record_auction that writes no record for a zero amount.
record_auction_skips_zero(ledger, to, amount) ==
    LET id == next_id(ledger) IN
    IF amount = 0 THEN ledger ELSE push(ledger, TxRecord_auction(id, to, amount))

record_auction(ledger, to, amount) ==
    LET id == next_id(ledger) IN push(ledger, TxRecord_auction(id, to, amount))

\* transfers: sequence of <<to, amount>>; one transfer record each, in order.
RECURSIVE ledger_batch_transfer(_, _, _, _)
ledger_batch_transfer(ledger, from, transfers, fee) ==
    IF transfers = <<>> THEN [ledger |-> ledger, ids |-> <<>>]
    ELSE LET t == ledger_transfer(ledger, from, Head(transfers)[1], Head(transfers)[2], fee)
             rest == ledger_batch_transfer(t.ledger, from, Tail(transfers), fee)
         IN  [ledger |-> rest.ledger, ids |-> <<t.id>> \o rest.ids]

\* ----------------------------------------------------------------- state.rs
balance_of(balances, who) == IF who \in DOMAIN balances THEN balances[who] ELSE 0

allowance(allowances, owner, spender) ==
    IF owner \in DOMAIN allowances
    THEN IF spender \in DOMAIN allowances[owner] THEN allowances[owner][spender] ELSE 0
    ELSE 0

fee_info(stats) == <<stats.fee, stats.fee_to>>

\* ------------------------------------------- canister/erc20_transactions.rs
\* The source constant is 10^12; scaled to 10^6 so that fee * K stays within
\* 32 bits.  fee_ratio is held as a numerator over FeeRatioDen.
INT_CONVERSION_K == 1000000
FeeRatioDen == 2
FeeRatios == 0..FeeRatioDen

\* (fee_ratio * INT_CONVERSION_K as f64) as u128
ratio_to_int(fee_ratio) == (fee_ratio * INT_CONVERSION_K) \div FeeRatioDen

\* fee * Tokens128::from((fee_ratio * INT_CONVERSION_K as f64) as u128)
\* / INT_CONVERSION_K, for the ratio num / den: both divisions truncate.
auction_fee_rounds_up(fee, num, den) ==
    (fee * ((num * INT_CONVERSION_K) \div den) + INT_CONVERSION_K - 1) \div INT_CONVERSION_K

auction_fee(fee, num, den) ==
    (fee * ((num * INT_CONVERSION_K) \div den)) \div INT_CONVERSION_K

\* Result<(), TxError> with the balances as left by the call.
transfer_balance(balances, from, to, amount) ==
    IF amount = 0 THEN [err |-> "", balances |-> balances]
    ELSE IF from \notin DOMAIN balances
    THEN [err |-> "InsufficientBalance", balances |-> balances]
    ELSE IF CheckedSub(balances[from], amount) = None
    THEN [err |-> "InsufficientBalance", balances |-> balances]
    ELSE LET b1 == MapInsert(balances, from, balances[from] - amount)
             to_balance == CheckedAdd(balance_of(b1, to), amount)
         IN  IF to_balance = None
             THEN [err |-> "Trap", balances |-> balances]
             ELSE LET b2 == MapInsert(b1, to, to_balance) IN
                  [err |-> "",
                   balances |-> IF b2[from] = 0 THEN MapRemove(b2, from) ELSE b2]

\* charge_fee that sends the whole fee to fee_to and the auction part on top.
charge_fee_owner_gets_whole_fee(balances, user, fee_to, fee, fee_ratio) ==
    IF fee = 0 THEN [err |-> "", balances |-> balances]
    ELSE LET auction_fee_amount == (fee * ratio_to_int(fee_ratio)) \div INT_CONVERSION_K
         IN  LET t1 == transfer_balance(balances, user, fee_to, fee) IN
             IF t1.err # "" THEN t1
             ELSE transfer_balance(t1.balances, user, auction_principal,
                                   auction_fee_amount)

\* charge_fee with payer and payee exchanged.
charge_fee_swapped_parties(balances, user, fee_to, fee, fee_ratio) ==
    IF fee = 0 THEN [err |-> "", balances |-> balances]
    ELSE LET auction_fee_amount == (fee * ratio_to_int(fee_ratio)) \div INT_CONVERSION_K
             owner_fee_amount == fee - auction_fee_amount
         IN  LET t1 == transfer_balance(balances, fee_to, user, owner_fee_amount) IN
             IF t1.err # "" THEN t1
             ELSE transfer_balance(t1.balances, user, auction_principal,
                                   auction_fee_amount)

\* charge_fee that pays the auction's part to fee_to and the owner's part to
\* the auction principal.
charge_fee_parts_exchanged(balances, user, fee_to, fee, fee_ratio) ==
    IF fee = 0 THEN [err |-> "", balances |-> balances]
    ELSE LET auction_fee_amount == (fee * ratio_to_int(fee_ratio)) \div INT_CONVERSION_K
             owner_fee_amount == fee - auction_fee_amount
         IN  LET t1 == transfer_balance(balances, user, fee_to, auction_fee_amount) IN
             IF t1.err # "" THEN t1
             ELSE transfer_balance(t1.balances, user, auction_principal,
                                   owner_fee_amount)

charge_fee(balances, user, fee_to, fee, fee_ratio) ==
    IF fee = 0 THEN [err |-> "", balances |-> balances]
    ELSE LET auction_fee_amount == auction_fee(fee, fee_ratio, FeeRatioDen)
             owner_fee_amount == CheckedSub(fee, auction_fee_amount)
         IN  IF auction_fee_amount > MAX_TOKENS \/ owner_fee_amount = None
             THEN [err |-> "Trap", balances |-> balances]
             ELSE LET t1 == transfer_balance(balances, user, fee_to, owner_fee_amount) IN
                  IF t1.err # "" THEN t1
                  ELSE transfer_balance(t1.balances, user, auction_principal,
                                        auction_fee_amount)

\* transfer that charges the fee before it checks the balance against
\* amount + fee.
transfer_charges_fee_first(s, fee_ratio, caller, recipient, amount, fee_limit) ==
    LET fee == fee_info(s.stats)[1]
        fee_to == fee_info(s.stats)[2]
    IN  IF fee_limit # None /\ fee > fee_limit
        THEN [state |-> s, res |-> Err("FeeExceededLimit")]
        ELSE IF CheckedAdd(amount, fee) = None
        THEN [state |-> s, res |-> Err("AmountOverflow")]
        ELSE IF balance_of(s.balances, caller) < fee
        THEN [state |-> s, res |-> Err("InsufficientBalance")]
        ELSE LET cf == charge_fee(s.balances, caller, fee_to, fee, fee_ratio) IN
             IF cf.err # "" THEN [state |-> s, res |-> Trap("never fails due to checks above")]
             ELSE IF balance_of(s.balances, caller) < CheckedAdd(amount, fee)
             THEN [state |-> [s EXCEPT !.balances = cf.balances],
                   res |-> Err("InsufficientBalance")]
             ELSE LET tb == transfer_balance(cf.balances, caller, recipient, amount) IN
                  IF tb.err # ""
                  THEN [state |-> s, res |-> Trap("never fails due to checks above")]
                  ELSE LET l == ledger_transfer(s.ledger, caller, recipient, amount, fee) IN
                       [state |-> [s EXCEPT !.balances = tb.balances, !.ledger = l.ledger],
                        res |-> Ok(l.id)]

\* Every operation returns [state |-> CanisterState after the call, res |-> result].
\* A trap leaves the state as it was before the call.
\* transfer that rejects a fee equal to the limit.
transfer_rejects_fee_at_limit(s, fee_ratio, caller, recipient, amount, fee_limit) ==
    LET fee == fee_info(s.stats)[1]
        fee_to == fee_info(s.stats)[2]
    IN  IF fee_limit # None /\ fee >= fee_limit
        THEN [state |-> s, res |-> Err("FeeExceededLimit")]
        ELSE IF CheckedAdd(amount, fee) = None
        THEN [state |-> s, res |-> Err("AmountOverflow")]
        ELSE IF balance_of(s.balances, caller) < CheckedAdd(amount, fee)
        THEN [state |-> s, res |-> Err("InsufficientBalance")]
        ELSE LET cf == charge_fee(s.balances, caller, fee_to, fee, fee_ratio) IN
             IF cf.err # "" THEN [state |-> s, res |-> Trap("never fails due to checks above")]
             ELSE LET tb == transfer_balance(cf.balances, caller, recipient, amount) IN
                  IF tb.err # ""
                  THEN [state |-> s, res |-> Trap("never fails due to checks above")]
                  ELSE LET l == ledger_transfer(s.ledger, caller, recipient, amount, fee) IN
                       [state |-> [s EXCEPT !.balances = tb.balances, !.ledger = l.ledger],
                        res |-> Ok(l.id)]

transfer(s, fee_ratio, caller, recipient, amount, fee_limit) ==
    LET fee == fee_info(s.stats)[1]
        fee_to == fee_info(s.stats)[2]
    IN  IF fee_limit # None /\ fee > fee_limit
        THEN [state |-> s, res |-> Err("FeeExceededLimit")]
        ELSE IF CheckedAdd(amount, fee) = None
        THEN [state |-> s, res |-> Err("AmountOverflow")]
        ELSE IF balance_of(s.balances, caller) < CheckedAdd(amount, fee)
        THEN [state |-> s, res |-> Err("InsufficientBalance")]
        ELSE LET cf == charge_fee(s.balances, caller, fee_to, fee, fee_ratio) IN
             IF cf.err # "" THEN [state |-> s, res |-> Trap("never fails due to checks above")]
             ELSE LET tb == transfer_balance(cf.balances, caller, recipient, amount) IN
                  IF tb.err # ""
                  THEN [state |-> s, res |-> Trap("never fails due to checks above")]
                  ELSE LET l == ledger_transfer(s.ledger, caller, recipient, amount, fee) IN
                       [state |-> [s EXCEPT !.balances = tb.balances, !.ledger = l.ledger],
                        res |-> Ok(l.id)]

\* decrease_allowance that leaves a spent-out entry in the map.
decrease_allowance_keeps_zero(allowances, from, spender, value_with_fee) ==
    MapInsert(allowances, from,
              MapInsert(allowances[from], spender,
                        allowances[from][spender] - value_with_fee))

\* decrease_allowance that does not write the new value back.
decrease_allowance_not_stored(allowances, from, spender, value_with_fee) ==
    allowances

\* decrease_allowance that removes a spent-out entry and keeps the owner's
\* inner map even when it is left empty.
decrease_allowance_keeps_empty_map(allowances, from, spender, value_with_fee) ==
    LET inner == MapInsert(allowances[from], spender,
                           allowances[from][spender] - value_with_fee)
    IN  IF inner[spender] = 0
        THEN MapInsert(allowances, from, MapRemove(inner, spender))
        ELSE MapInsert(allowances, from, inner)

\* The allowance bookkeeping on the success path of transfer_from.
decrease_allowance(allowances, from, spender, value_with_fee) ==
    LET inner == MapInsert(allowances[from], spender,
                           allowances[from][spender] - value_with_fee)
    IN  IF inner[spender] = 0
        THEN IF DOMAIN MapRemove(inner, spender) = {}
             THEN MapRemove(allowances, from)
             ELSE MapInsert(allowances, from, MapRemove(inner, spender))
        ELSE MapInsert(allowances, from, inner)

\* transfer_from that refuses to spend an allowance to the last token.
transfer_from_allowance_exclusive(s, fee_ratio, caller, from, to, amount) ==
    LET from_allowance == allowance(s.allowances, from, caller)
        fee == fee_info(s.stats)[1]
        fee_to == fee_info(s.stats)[2]
        value_with_fee == CheckedAdd(amount, fee)
    IN  IF value_with_fee = None
        THEN [state |-> s, res |-> Err("AmountOverflow")]
        ELSE IF from_allowance <= value_with_fee
        THEN [state |-> s, res |-> Err("InsufficientAllowance")]
        ELSE IF balance_of(s.balances, from) < value_with_fee
        THEN [state |-> s, res |-> Err("InsufficientBalance")]
        ELSE LET cf == charge_fee(s.balances, from, fee_to, fee, fee_ratio)
                 tb == transfer_balance(cf.balances, from, to, amount)
                 l == ledger_transfer_from(s.ledger, caller, from, to, amount, fee)
             IN  [state |-> [s EXCEPT
                               !.balances = tb.balances,
                               !.allowances = decrease_allowance(s.allowances, from,
                                                  caller, value_with_fee),
                               !.ledger = l.ledger],
                  res |-> Ok(l.id)]

\* transfer_from that checks the owner's balance before the allowance.
transfer_from_checks_balance_first(s, fee_ratio, caller, from, to, amount) ==
    LET from_allowance == allowance(s.allowances, from, caller)
        fee == fee_info(s.stats)[1]
        fee_to == fee_info(s.stats)[2]
        value_with_fee == CheckedAdd(amount, fee)
    IN  IF value_with_fee = None
        THEN [state |-> s, res |-> Err("AmountOverflow")]
        ELSE IF balance_of(s.balances, from) < value_with_fee
        THEN [state |-> s, res |-> Err("InsufficientBalance")]
        ELSE IF from_allowance < value_with_fee
        THEN [state |-> s, res |-> Err("InsufficientAllowance")]
        ELSE LET cf == charge_fee(s.balances, from, fee_to, fee, fee_ratio) IN
             IF cf.err # "" THEN [state |-> s, res |-> Trap("never fails due to checks above")]
             ELSE LET tb == transfer_balance(cf.balances, from, to, amount) IN
                  IF tb.err # ""
                  THEN [state |-> s, res |-> Trap("never fails due to checks above")]
                  ELSE IF from \notin DOMAIN s.allowances
                          \/ caller \notin DOMAIN s.allowances[from]
                  THEN [state |-> s, res |-> Trap("allowance existing is checked above")]
                  ELSE LET l == ledger_transfer_from(s.ledger, caller, from, to, amount, fee) IN
                       [state |-> [s EXCEPT
                                     !.balances = tb.balances,
                                     !.allowances = decrease_allowance(s.allowances, from,
                                                        caller, value_with_fee),
                                     !.ledger = l.ledger],
                        res |-> Ok(l.id)]

\* transfer_from that charges the fee to the spender.
transfer_from_charges_spender(s, fee_ratio, caller, from, to, amount) ==
    LET from_allowance == allowance(s.allowances, from, caller)
        fee == fee_info(s.stats)[1]
        fee_to == fee_info(s.stats)[2]
        value_with_fee == CheckedAdd(amount, fee)
    IN  IF value_with_fee = None
        THEN [state |-> s, res |-> Err("AmountOverflow")]
        ELSE IF from_allowance < value_with_fee
        THEN [state |-> s, res |-> Err("InsufficientAllowance")]
        ELSE IF balance_of(s.balances, from) < value_with_fee
        THEN [state |-> s, res |-> Err("InsufficientBalance")]
        ELSE LET cf == charge_fee(s.balances, caller, fee_to, fee, fee_ratio) IN
             IF cf.err # "" THEN [state |-> s, res |-> Trap("never fails due to checks above")]
             ELSE LET tb == transfer_balance(cf.balances, from, to, amount) IN
                  IF tb.err # ""
                  THEN [state |-> s, res |-> Trap("never fails due to checks above")]
                  ELSE IF from \notin DOMAIN s.allowances
                          \/ caller \notin DOMAIN s.allowances[from]
                  THEN [state |-> s, res |-> Trap("allowance existing is checked above")]
                  ELSE LET l == ledger_transfer_from(s.ledger, caller, from, to, amount, fee) IN
                       [state |-> [s EXCEPT
                                     !.balances = tb.balances,
                                     !.allowances = decrease_allowance(s.allowances, from,
                                                        caller, value_with_fee),
                                     !.ledger = l.ledger],
                        res |-> Ok(l.id)]

transfer_from(s, fee_ratio, caller, from, to, amount) ==
    LET from_allowance == allowance(s.allowances, from, caller)
        fee == fee_info(s.stats)[1]
        fee_to == fee_info(s.stats)[2]
        value_with_fee == CheckedAdd(amount, fee)
    IN  IF value_with_fee = None
        THEN [state |-> s, res |-> Err("AmountOverflow")]
        ELSE IF from_allowance < value_with_fee
        THEN [state |-> s, res |-> Err("InsufficientAllowance")]
        ELSE IF balance_of(s.balances, from) < value_with_fee
        THEN [state |-> s, res |-> Err("InsufficientBalance")]
        ELSE LET cf == charge_fee(s.balances, from, fee_to, fee, fee_ratio) IN
             IF cf.err # "" THEN [state |-> s, res |-> Trap("never fails due to checks above")]
             ELSE LET tb == transfer_balance(cf.balances, from, to, amount) IN
                  IF tb.err # ""
                  THEN [state |-> s, res |-> Trap("never fails due to checks above")]
                  ELSE IF from \notin DOMAIN s.allowances
                          \/ caller \notin DOMAIN s.allowances[from]
                  THEN [state |-> s, res |-> Trap("allowance existing is checked above")]
                  ELSE LET l == ledger_transfer_from(s.ledger, caller, from, to, amount, fee) IN
                       [state |-> [s EXCEPT
                                     !.balances = tb.balances,
                                     !.allowances = decrease_allowance(s.allowances, from,
                                                        caller, value_with_fee),
                                     !.ledger = l.ledger],
                        res |-> Ok(l.id)]

\* set_allowance that adds the new value to the one in force.
set_allowance_adds(allowances, owner, spender, amount_with_fee) ==
    LET total == allowance(allowances, owner, spender) + amount_with_fee IN
    IF total = 0
    THEN allowances
    ELSE MapInsert(allowances, owner,
                   MapInsert(IF owner \in DOMAIN allowances THEN allowances[owner]
                             ELSE EmptyMap,
                             spender, total))

\* set_allowance that stores the new value even when it is zero.
set_allowance_stores_zero(allowances, owner, spender, amount_with_fee) ==
    MapInsert(allowances, owner,
              MapInsert(IF owner \in DOMAIN allowances THEN allowances[owner]
                        ELSE EmptyMap,
                        spender, amount_with_fee))

\* The allowance bookkeeping on the success path of approve.
set_allowance(allowances, owner, spender, amount_with_fee) ==
    IF amount_with_fee = 0
    THEN IF owner \in DOMAIN allowances
         THEN IF DOMAIN MapRemove(allowances[owner], spender) = {}
              THEN MapRemove(allowances, owner)
              ELSE MapInsert(allowances, owner, MapRemove(allowances[owner], spender))
         ELSE allowances
    ELSE MapInsert(allowances, owner,
                   MapInsert(IF owner \in DOMAIN allowances THEN allowances[owner]
                             ELSE EmptyMap,
                             spender, amount_with_fee))

approve(s, fee_ratio, caller, recipient, amount) ==
    LET fee == fee_info(s.stats)[1]
        fee_to == fee_info(s.stats)[2]
    IN  IF balance_of(s.balances, caller) < fee
        THEN [state |-> s, res |-> Err("InsufficientBalance")]
        ELSE LET cf == charge_fee(s.balances, caller, fee_to, fee, fee_ratio) IN
             IF cf.err # "" THEN [state |-> s, res |-> Trap("never fails due to checks above")]
             ELSE LET amount_with_fee == CheckedAdd(amount, fee) IN
                  \* the fee has been charged when the overflow is detected
                  IF amount_with_fee = None
                  THEN [state |-> [s EXCEPT !.balances = cf.balances],
                        res |-> Err("AmountOverflow")]
                  ELSE LET l == ledger_approve(s.ledger, caller, recipient, amount, fee) IN
                       [state |-> [s EXCEPT
                                     !.balances = cf.balances,
                                     !.allowances = set_allowance(s.allowances, caller,
                                                        recipient, amount_with_fee),
                                     !.ledger = l.ledger],
                        res |-> Ok(l.id)]

\* mint whose additions wrap around at the largest representable quantity.
mint_wraps(s, caller, to, amount) ==
    LET total_supply == (s.stats.total_supply + amount) % (MAX_TOKENS + 1)
        new_balance == (balance_of(s.balances, to) + amount) % (MAX_TOKENS + 1)
        l == ledger_mint(s.ledger, caller, to, amount)
    IN  [state |-> [s EXCEPT !.stats.total_supply = total_supply,
                             !.balances = MapInsert(s.balances, to, new_balance),
                             !.ledger = l.ledger],
         res |-> Ok(l.id)]

\* mint that leaves total_supply as it was.
mint_keeps_total_supply(s, caller, to, amount) ==
    LET total_supply == CheckedAdd(s.stats.total_supply, amount) IN
    IF total_supply = None
    THEN [state |-> s, res |-> Err("AmountOverflow")]
    ELSE LET l == ledger_mint(s.ledger, caller, to, amount) IN
         [state |-> [s EXCEPT !.balances = MapInsert(s.balances, to,
                                               balance_of(s.balances, to) + amount),
                              !.ledger = l.ledger],
          res |-> Ok(l.id)]

mint(s, caller, to, amount) ==
    LET total_supply == CheckedAdd(s.stats.total_supply, amount) IN
    IF total_supply = None
    THEN [state |-> s, res |-> Err("AmountOverflow")]
    ELSE LET new_balance == CheckedAdd(balance_of(s.balances, to), amount) IN
         IF new_balance = None
         THEN [state |-> s, res |-> Trap("balance cannot be larger than total_supply")]
         ELSE LET l == ledger_mint(s.ledger, caller, to, amount) IN
              [state |-> [s EXCEPT !.stats.total_supply = total_supply,
                                   !.balances = MapInsert(s.balances, to, new_balance),
                                   !.ledger = l.ledger],
               res |-> Ok(l.id)]

mint_test_token(s, caller, to, amount) == mint(s, caller, to, amount)

mint_as_owner(s, caller, to, amount) == mint(s, caller, to, amount)

\* The balances after burn's debit, on the path where it does not fail.
burn_balance(balances, from, amount) ==
    IF from \in DOMAIN balances
    THEN IF balances[from] - amount = 0 THEN MapRemove(balances, from)
         ELSE MapInsert(balances, from, balances[from] - amount)
    ELSE balances

\* burn that debits the holder and leaves total_supply as it was.
burn_keeps_total_supply(s, caller, from, amount) ==
    IF from \in DOMAIN s.balances /\ CheckedSub(s.balances[from], amount) = None
    THEN [state |-> s, res |-> Err("InsufficientBalance")]
    ELSE IF from \notin DOMAIN s.balances /\ amount # 0
    THEN [state |-> s, res |-> Err("InsufficientBalance")]
    ELSE LET l == ledger_burn(s.ledger, caller, from, amount) IN
         [state |-> [s EXCEPT !.balances = burn_balance(s.balances, from, amount),
                              !.ledger = l.ledger],
          res |-> Ok(l.id)]

burn(s, caller, from, amount) ==
    IF from \in DOMAIN s.balances /\ CheckedSub(s.balances[from], amount) = None
    THEN [state |-> s, res |-> Err("InsufficientBalance")]
    ELSE IF from \notin DOMAIN s.balances /\ amount # 0
    THEN [state |-> s, res |-> Err("InsufficientBalance")]
    ELSE LET total_supply == CheckedSub(s.stats.total_supply, amount) IN
         IF total_supply = None
         THEN [state |-> s, res |-> Trap("total supply cannot be less then user balance")]
         ELSE LET l == ledger_burn(s.ledger, caller, from, amount) IN
              [state |-> [s EXCEPT !.balances = burn_balance(s.balances, from, amount),
                                   !.stats.total_supply = total_supply,
                                   !.ledger = l.ledger],
               res |-> Ok(l.id)]

burn_own_tokens(s, caller, amount) == burn(s, caller, caller, amount)

burn_as_owner(s, caller, from, amount) == burn(s, caller, from, amount)

\* ---------------------------------------------------------------- principal.rs
\* CheckedPrincipal constructors: "" when the guard passes, else the TxError.
with_recipient(caller, recipient) == IF caller = recipient THEN "SelfTransfer" ELSE ""

from_to(caller, from, to) == IF from = to THEN "SelfTransfer" ELSE ""

owner(stats, caller) == IF caller = stats.owner THEN "" ELSE "Unauthorized"

test_user(stats, caller) == IF stats.is_test_token THEN "" ELSE "Unauthorized"

\* ------------------------------------------- canister/is20_transactions.rs
transfer_include_fee(s, fee_ratio, caller, recipient, amount) ==
    LET fee == fee_info(s.stats)[1]
        fee_to == fee_info(s.stats)[2]
    IN  IF amount <= fee
        THEN [state |-> s, res |-> Err("AmountTooSmall")]
        ELSE IF balance_of(s.balances, caller) < amount
        THEN [state |-> s, res |-> Err("InsufficientBalance")]
        ELSE LET cf == charge_fee(s.balances, caller, fee_to, fee, fee_ratio) IN
             IF cf.err # "" THEN [state |-> s, res |-> Trap("never fails due to checks above")]
             ELSE LET tb == transfer_balance(cf.balances, caller, recipient, amount - fee) IN
                  IF tb.err # ""
                  THEN [state |-> s, res |-> Trap("never fails due to checks above")]
                  ELSE LET l == ledger_transfer(s.ledger, caller, recipient, amount, fee) IN
                       [state |-> [s EXCEPT !.balances = tb.balances, !.ledger = l.ledger],
                        res |-> Ok(l.id)]

\* Checked sum of (amount + fee) over the list; None on overflow.
RECURSIVE batch_total(_, _)
batch_total(transfers, fee) ==
    IF transfers = <<>> THEN 0
    ELSE LET rest == batch_total(Tail(transfers), fee)
             one == CheckedAdd(Head(transfers)[2], fee)
         IN  IF rest = None \/ one = None THEN None ELSE CheckedAdd(one, rest)

RECURSIVE batch_apply(_, _, _, _, _, _)
batch_apply(balances, from, transfers, fee_to, fee, fee_ratio) ==
    IF transfers = <<>> THEN [err |-> "", balances |-> balances]
    ELSE LET cf == charge_fee(balances, from, fee_to, fee, fee_ratio) IN
         IF cf.err # "" THEN cf
         ELSE LET tb == transfer_balance(cf.balances, from, Head(transfers)[1],
                                         Head(transfers)[2])
              IN  IF tb.err # "" THEN tb
                  ELSE batch_apply(tb.balances, from, Tail(transfers), fee_to, fee, fee_ratio)

batch_transfer(s, fee_ratio, caller, transfers) ==
    LET fee == fee_info(s.stats)[1]
        fee_to == fee_info(s.stats)[2]
        total == batch_total(transfers, fee)
    IN  IF total = None
        THEN [state |-> s, res |-> Err("AmountOverflow")]
        ELSE IF balance_of(s.balances, caller) < total
        THEN [state |-> s, res |-> Err("InsufficientBalance")]
        ELSE LET ba == batch_apply(s.balances, caller, transfers, fee_to, fee, fee_ratio) IN
             IF ba.err # "" THEN [state |-> s, res |-> Trap("never fails due to checks above")]
             ELSE LET l == ledger_batch_transfer(s.ledger, caller, transfers, fee) IN
                  [state |-> [s EXCEPT !.balances = ba.balances, !.ledger = l.ledger],
                   res |-> OkIds(l.ids)]

\* ------------------------------------------------ canister/is20_auction.rs
accumulated_fees(balances) ==
    IF auction_principal \in DOMAIN balances THEN balances[auction_principal] ELSE 0

\* The loop of disburse_rewards with each share taken from what is left of the
\* pool.
RECURSIVE disburse_loop_shares_rest(_, _, _, _, _, _)
disburse_loop_shares_rest(balances, ledger, transferred_amount, order, total_amount, bidding_state) ==
    IF order = <<>>
    THEN [err |-> "", balances |-> balances, ledger |-> ledger,
          transferred_amount |-> transferred_amount]
    ELSE LET bidder == Head(order)
             cycles == bidding_state.bids[bidder]
             total_cycles == bidding_state.cycles_since_auction
             amount == IF total_cycles = 0 THEN 0
                       ELSE (accumulated_fees(balances) * cycles) \div total_cycles
             tb == transfer_balance(balances, auction_principal, bidder, amount)
         IN  IF tb.err # ""
             THEN [err |-> tb.err, balances |-> balances, ledger |-> ledger,
                   transferred_amount |-> transferred_amount]
             ELSE disburse_loop_shares_rest(
                      tb.balances, record_auction(ledger, bidder, amount),
                      transferred_amount + amount, Tail(order), total_amount,
                      bidding_state)

\* The loop of disburse_rewards over the bids, in the iteration order `order`.
RECURSIVE disburse_loop(_, _, _, _, _, _)
disburse_loop(balances, ledger, transferred_amount, order, total_amount, bidding_state) ==
    IF order = <<>>
    THEN [err |-> "", balances |-> balances, ledger |-> ledger,
          transferred_amount |-> transferred_amount]
    ELSE LET bidder == Head(order)
             cycles == bidding_state.bids[bidder]
             total_cycles == bidding_state.cycles_since_auction
             failed(msg) == [err |-> msg, balances |-> balances, ledger |-> ledger,
                             transferred_amount |-> transferred_amount]
         IN  IF total_cycles = 0
             THEN failed("total cycles is not 0 checked by bids existing")
             ELSE LET amount == (total_amount * cycles) \div total_cycles IN
                  IF amount > MAX_TOKENS
                  THEN failed("total cycles is smaller then single user bid cycles")
                  ELSE LET tb == transfer_balance(balances, auction_principal, bidder, amount)
                       IN  IF tb.err # ""
                           THEN failed("auction principal always have enough balance")
                           ELSE IF CheckedAdd(transferred_amount, amount) = None
                           THEN failed("can never be larger than total_supply")
                           ELSE disburse_loop(tb.balances,
                                              record_auction(ledger, bidder, amount),
                                              transferred_amount + amount, Tail(order),
                                              total_amount, bidding_state)

\* Returns the state after the disbursement and the AuctionInfo.
disburse_rewards(s, a, order) ==
    LET total_amount == accumulated_fees(s.balances)
        first_transaction_id == len(s.ledger)
        loop == disburse_loop(s.balances, s.ledger, 0, order, total_amount, a.bidding_state)
    IN  IF loop.err # ""
        THEN [state |-> s, err |-> loop.err, info |-> <<>>]
        ELSE [state |-> [s EXCEPT !.balances = loop.balances, !.ledger = loop.ledger],
              err |-> "",
              info |-> [auction_id |-> Len(a.history),
                        tokens_distributed |-> loop.transferred_amount,
                        cycles_collected |-> a.bidding_state.cycles_since_auction,
                        fee_ratio |-> a.bidding_state.fee_ratio,
                        first_transaction_id |-> first_transaction_id,
                        last_transaction_id |-> len(loop.ledger) - 1]]

\* ------------------------------------------------------------- ic_auction
\* Scaled from 1_000_000 cycles.
MIN_BIDDING_AMOUNT == 1
\* Bids are accepted while cycles_since_auction stays within MaxCycles.
MaxCycles == 1
Bidders == {alice, bob}
CyclesSent == {0, 1}

\* All iteration orders of a set (HashMap iteration order is unspecified).
Orders(S) == {f \in [1..Cardinality(S) -> S] : \A i, j \in 1..Cardinality(S) : f[i] = f[j] => i = j}

\* bid_cycles that credits the bidder without adding to cycles_since_auction.
bid_cycles_forgets_total(a, bidder, cycles) ==
    IF cycles < MIN_BIDDING_AMOUNT
    THEN [auction_state |-> a, err |-> "BiddingTooSmall"]
    ELSE [auction_state |->
              [a EXCEPT !.bidding_state.bids =
                            MapInsert(@, bidder,
                                      (IF bidder \in DOMAIN @ THEN @[bidder] ELSE 0) + cycles)],
          err |-> ""]

bid_cycles(a, bidder, cycles) ==
    IF cycles < MIN_BIDDING_AMOUNT
    THEN [auction_state |-> a, err |-> "BiddingTooSmall"]
    ELSE [auction_state |->
              [a EXCEPT !.bidding_state.bids =
                            MapInsert(@, bidder,
                                      (IF bidder \in DOMAIN @ THEN @[bidder] ELSE 0) + cycles),
                        !.bidding_state.cycles_since_auction = @ + cycles],
          err |-> ""]

\* run_auction that settles an empty bid book like any other.
run_auction_settles_empty_book(s, a, order, new_fee_ratio) ==
    LET d == disburse_rewards(s, a, order) IN
    IF d.err # ""
    THEN [state |-> s, auction_state |-> a, res |-> Trap(d.err)]
    ELSE [state |-> d.state,
          auction_state |->
              [bidding_state |-> [bids |-> EmptyMap, cycles_since_auction |-> 0,
                                  fee_ratio |-> new_fee_ratio],
               history |-> Append(a.history, d.info)],
          res |-> Ok(d.info.auction_id)]

\* new_fee_ratio: the ratio recomputed from the host's cycles balance.
run_auction(s, a, order, new_fee_ratio) ==
    IF DOMAIN a.bidding_state.bids = {}
    THEN [state |-> s, auction_state |-> a, res |-> Err("NoBids")]
    ELSE LET d == disburse_rewards(s, a, order) IN
         IF d.err # ""
         THEN [state |-> s, auction_state |-> a, res |-> Trap(d.err)]
         ELSE [state |-> d.state,
               auction_state |->
                   [bidding_state |-> [bids |-> EmptyMap, cycles_since_auction |-> 0,
                                       fee_ratio |-> new_fee_ratio],
                    history |-> Append(a.history, d.info)],
               res |-> Ok(d.info.auction_id)]

\* ------------------------------------------------------------- canister.rs
\* TokenCanisterAPI endpoints: the guard, then the operation.
api_transfer(s, a, caller, to, amount, fee_limit) ==
    IF with_recipient(caller, to) # ""
    THEN [state |-> s, res |-> Err(with_recipient(caller, to))]
    ELSE transfer(s, a.bidding_state.fee_ratio, caller, to, amount, fee_limit)

api_transfer_from(s, a, caller, from, to, amount) ==
    IF from_to(caller, from, to) # ""
    THEN [state |-> s, res |-> Err(from_to(caller, from, to))]
    ELSE transfer_from(s, a.bidding_state.fee_ratio, caller, from, to, amount)

api_transfer_include_fee(s, a, caller, to, amount) ==
    IF with_recipient(caller, to) # ""
    THEN [state |-> s, res |-> Err(with_recipient(caller, to))]
    ELSE transfer_include_fee(s, a.bidding_state.fee_ratio, caller, to, amount)

\* batch_transfer endpoint that guards the first recipient only.
api_batch_transfer_guards_first(s, a, caller, transfers) ==
    IF transfers # <<>> /\ with_recipient(caller, transfers[1][1]) # ""
    THEN [state |-> s, res |-> Err("SelfTransfer")]
    ELSE batch_transfer(s, a.bidding_state.fee_ratio, caller, transfers)

api_batch_transfer(s, a, caller, transfers) ==
    IF \E i \in 1..Len(transfers) : with_recipient(caller, transfers[i][1]) # ""
    THEN [state |-> s, res |-> Err("SelfTransfer")]
    ELSE batch_transfer(s, a.bidding_state.fee_ratio, caller, transfers)

api_approve(s, a, caller, spender, amount) ==
    IF with_recipient(caller, spender) # ""
    THEN [state |-> s, res |-> Err(with_recipient(caller, spender))]
    ELSE approve(s, a.bidding_state.fee_ratio, caller, spender, amount)

\* Scaled from 1000, below the number of records a history retains.
MAX_TRANSACTION_QUERY_LEN == 2

\* TokenCanisterAPI::get_transactions
api_get_transactions(s, who, count, transaction_id) ==
    get_transactions(s.ledger, who,
                     IF count < MAX_TRANSACTION_QUERY_LEN
                     THEN count ELSE MAX_TRANSACTION_QUERY_LEN,
                     transaction_id)

\* The orders in which the HashMap of balances may be iterated: every order of
\* its keys.
RECURSIVE iter(_)
iter(keys) ==
    IF keys = {} THEN {<<>>}
    ELSE UNION {{<<k>> \o rest : rest \in iter(keys \ {k})} : k \in keys}

\* Vec::sort_by(|a, b| b.1.cmp(&a.1)): a stable sort by balance, descending;
\* entries of equal balance keep the order they had.
RECURSIVE sort_by(_)
sort_by(balance) ==
    IF balance = <<>> THEN <<>>
    ELSE LET n == Len(balance)
             sorted == sort_by(SubSeq(balance, 1, n - 1))
             entry == balance[n]
             k == Cardinality({i \in 1..(n - 1) : sorted[i][2] >= entry[2]})
         IN  SubSeq(sorted, 1, k) \o <<entry>> \o SubSeq(sorted, k + 1, n - 1)

\* Balances::get_holders, for the iteration order `order` of the map.  start +
\* limit is a usize addition: it wraps in a build without overflow checks, and
\* the wrapped end is then below start; a build with overflow checks panics at
\* the addition.  The slice balance[start..end] panics when start > end.
get_holders(balances, order, start, limit) ==
    LET balance == sort_by([i \in 1..Len(order) |-> <<order[i], balances[order[i]]>>])
        sum == (start + limit) % (USIZE_MAX + 1)
        end == IF sum < Len(balance) THEN sum ELSE Len(balance)
    IN  IF start > end
        THEN [trap |-> TRUE, holders |-> <<>>]
        ELSE [trap |-> FALSE, holders |-> SubSeq(balance, start + 1, end)]

\* CanisterUpdate applied to stats (symbol, decimals, deploy_time and min_cycles
\* are not part of the model's stats).
\* update_stats whose Owner update leaves the owner in place.
update_stats_keeps_owner(s, update) ==
    CASE update.kind = "Name" -> [s EXCEPT !.stats.name = update.value]
      [] update.kind = "Logo" -> [s EXCEPT !.stats.logo = update.value]
      [] update.kind = "Fee" -> [s EXCEPT !.stats.fee = update.value]
      [] update.kind = "FeeTo" -> [s EXCEPT !.stats.fee_to = update.value]
      [] update.kind = "Owner" -> s

update_stats(s, update) ==
    CASE update.kind = "Name" -> [s EXCEPT !.stats.name = update.value]
      [] update.kind = "Logo" -> [s EXCEPT !.stats.logo = update.value]
      [] update.kind = "Fee" -> [s EXCEPT !.stats.fee = update.value]
      [] update.kind = "FeeTo" -> [s EXCEPT !.stats.fee_to = update.value]
      [] update.kind = "Owner" -> [s EXCEPT !.stats.owner = update.value]

api_set_name(s, caller, name) ==
    IF owner(s.stats, caller) # ""
    THEN [state |-> s, res |-> Err(owner(s.stats, caller))]
    ELSE [state |-> update_stats(s, [kind |-> "Name", value |-> name]), res |-> Ok(None)]

api_set_logo(s, caller, logo) ==
    IF owner(s.stats, caller) # ""
    THEN [state |-> s, res |-> Err(owner(s.stats, caller))]
    ELSE [state |-> update_stats(s, [kind |-> "Logo", value |-> logo]), res |-> Ok(None)]

api_set_fee(s, caller, fee) ==
    IF owner(s.stats, caller) # ""
    THEN [state |-> s, res |-> Err(owner(s.stats, caller))]
    ELSE [state |-> update_stats(s, [kind |-> "Fee", value |-> fee]), res |-> Ok(None)]

api_set_feeTo(s, caller, fee_to) ==
    IF owner(s.stats, caller) # ""
    THEN [state |-> s, res |-> Err(owner(s.stats, caller))]
    ELSE [state |-> update_stats(s, [kind |-> "FeeTo", value |-> fee_to]),
          res |-> Ok(None)]

api_set_owner(s, caller, new_owner) ==
    IF owner(s.stats, caller) # ""
    THEN [state |-> s, res |-> Err(owner(s.stats, caller))]
    ELSE [state |-> update_stats(s, [kind |-> "Owner", value |-> new_owner]),
          res |-> Ok(None)]

\* mint endpoint that takes every caller for the owner.
api_mint_any_caller(s, caller, to, amount) ==
    IF s.stats.is_test_token
    THEN mint_test_token(s, caller, to, amount)
    ELSE mint_as_owner(s, caller, to, amount)

api_mint(s, caller, to, amount) ==
    IF s.stats.is_test_token
    THEN IF test_user(s.stats, caller) # ""
         THEN [state |-> s, res |-> Err(test_user(s.stats, caller))]
         ELSE mint_test_token(s, caller, to, amount)
    ELSE IF owner(s.stats, caller) # ""
         THEN [state |-> s, res |-> Err(owner(s.stats, caller))]
         ELSE mint_as_owner(s, caller, to, amount)

\* burn endpoint that lets every caller burn the tokens of from.
api_burn_any_caller(s, caller, from, amount) ==
    IF from = NoPrincipal THEN burn_own_tokens(s, caller, amount)
    ELSE burn_as_owner(s, caller, from, amount)

\* burn endpoint that lets the fee recipient burn as the owner does.
api_burn_authorises_fee_to(s, caller, from, amount) ==
    IF from = NoPrincipal THEN burn_own_tokens(s, caller, amount)
    ELSE IF from = caller THEN burn_own_tokens(s, caller, amount)
    ELSE IF owner(s.stats, caller) # "" /\ caller # s.stats.fee_to
         THEN [state |-> s, res |-> Err(owner(s.stats, caller))]
         ELSE burn_as_owner(s, caller, from, amount)

api_burn(s, caller, from, amount) ==
    IF from = NoPrincipal THEN burn_own_tokens(s, caller, amount)
    ELSE IF from = caller THEN burn_own_tokens(s, caller, amount)
    ELSE IF owner(s.stats, caller) # ""
         THEN [state |-> s, res |-> Err(owner(s.stats, caller))]
         ELSE burn_as_owner(s, caller, from, amount)

VARIABLES
    state,          \* CanisterState: balances, stats, allowances, ledger
    auction_state,  \* AuctionState: bidding_state, history
    ret,            \* the last receipt returned by a call that took effect: [op, res]
    allowance_log   \* per (owner, spender): the allowance set by the owner's last
                    \* approve, and amount + fee spent from it by transfer_from since

vars == <<state, auction_state, ret, allowance_log>>

\* ------------------------------------------------------------------ inputs
\* Callers of update methods; alice is the owner set at init.
Callers == {alice, bob}
Recipients == {bob, john}
Holders == {alice, bob}
\* Metadata passed to init.
Meta(total_supply, fee, fee_to, is_test_token) ==
    [logo |-> "", name |-> "", total_supply |-> total_supply, owner |-> alice,
     fee |-> fee, fee_to |-> fee_to, is_test_token |-> is_test_token]
InitMetadata ==
    {Meta(3, 0, alice, FALSE), Meta(3, 1, alice, FALSE), Meta(3, 1, john, FALSE),
     Meta(3, 2, john, FALSE), Meta(0, 0, alice, TRUE)}
\* Arguments of set_name, set_logo, set_fee, set_feeTo and set_owner.
Names == {"", "IS20"}
Logos == {"", "logo"}
Fees == {0, 1, 2}
FeeTos == {alice, john}
Owners == {alice, bob}
TransferAmounts == {0, 1, MAX_TOKENS}
IncludeFeeAmounts == {1, 3, MAX_TOKENS}
ApproveAmounts == {0, 1, MAX_TOKENS}
MintAmounts == {0, 1, MAX_TOKENS}
BurnAmounts == {0, 1, MAX_TOKENS}
\* Vec<(Principal, Tokens128)> arguments of batch_transfer.
Batches ==
    {<<<<bob, 1>>>>, <<<<alice, 1>>>>, <<<<bob, 1>>, <<john, 0>>>>,
     <<<<john, 1>>, <<bob, 1>>>>, <<<<bob, MAX_TOKENS>>, <<bob, 1>>>>}

\* --------------------------------------------------------------------- mock.rs
\* TokenCanisterMock::init(metadata)
init(metadata) ==
    [balances |-> MapInsert(EmptyMap, metadata.owner, metadata.total_supply),
     stats |-> [logo |-> metadata.logo, name |-> metadata.name,
                total_supply |-> metadata.total_supply, owner |-> metadata.owner,
                fee |-> metadata.fee, fee_to |-> metadata.fee_to,
                is_test_token |-> metadata.is_test_token],
     allowances |-> EmptyMap,
     ledger |-> ledger_mint(EmptyLedger, metadata.owner, metadata.owner,
                            metadata.total_supply).ledger]

Init ==
    /\ \E metadata \in InitMetadata : state = init(metadata)
    /\ auction_state = [bidding_state |-> [bids |-> EmptyMap, cycles_since_auction |-> 0,
                                           fee_ratio |-> 0],
                        history |-> <<>>]
    /\ ret = [op |-> "init", res |-> Ok(0)]
    /\ allowance_log = [p \in Users \X Users |-> [approved |-> 0, spent |-> 0]]

\* ------------------------------------------------------------------ actions
\* One update call that takes effect: the state moves to the call's result and
\* ret records it.  A call that fails and changes nothing is a stuttering step.
\* cap bounds the number of records ever appended.
Call(op, r, cap) ==
    /\ r.res.tag = "Ok" \/ r.state # state
    /\ len(r.state.ledger) <= cap
    /\ state' = r.state
    /\ ret' = [op |-> op, res |-> r.res]

Transfer(cap) ==
    /\ \E caller \in Callers, to \in Recipients \cup {auction_principal},
          amount \in TransferAmounts, fee_limit \in FeeLimits :
          Call("transfer",
               api_transfer(state, auction_state, caller, to, amount, fee_limit), cap)
    /\ UNCHANGED <<auction_state, allowance_log>>

TransferFrom(cap) ==
    /\ \E caller \in Callers, from \in Holders, to \in Recipients,
          amount \in TransferAmounts :
          LET r == api_transfer_from(state, auction_state, caller, from, to, amount) IN
          /\ Call("transfer_from", r, cap)
          /\ allowance_log' =
                 IF r.res.tag = "Ok"
                 THEN [allowance_log EXCEPT ![from, caller].spent =
                                                @ + amount + state.stats.fee]
                 ELSE allowance_log
    /\ UNCHANGED auction_state

TransferIncludeFee(cap) ==
    /\ \E caller \in Callers, to \in Recipients, amount \in IncludeFeeAmounts :
          Call("transfer_include_fee",
               api_transfer_include_fee(state, auction_state, caller, to, amount), cap)
    /\ UNCHANGED <<auction_state, allowance_log>>

BatchTransfer(cap) ==
    /\ \E caller \in Callers, transfers \in Batches :
          Call("batch_transfer",
               api_batch_transfer(state, auction_state, caller, transfers), cap)
    /\ UNCHANGED <<auction_state, allowance_log>>

Approve(cap) ==
    /\ \E caller \in Callers, spender \in Recipients, amount \in ApproveAmounts :
          LET r == api_approve(state, auction_state, caller, spender, amount) IN
          /\ Call("approve", r, cap)
          /\ allowance_log' =
                 IF r.res.tag = "Ok"
                 THEN [allowance_log EXCEPT ![caller, spender] =
                          [approved |-> allowance(r.state.allowances, caller, spender),
                           spent |-> 0]]
                 ELSE allowance_log
    /\ UNCHANGED auction_state

Mint(cap) ==
    /\ \E caller \in Callers, to \in Holders, amount \in MintAmounts :
          Call("mint", api_mint(state, caller, to, amount), cap)
    /\ UNCHANGED <<auction_state, allowance_log>>

Burn(cap) ==
    /\ \E caller \in Callers, from \in Holders \cup {NoPrincipal}, amount \in BurnAmounts :
          Call("burn", api_burn(state, caller, from, amount), cap)
    /\ UNCHANGED <<auction_state, allowance_log>>

\* A setter call that takes effect (one that fails, or sets the value already
\* in force, is a stuttering step).  ret keeps the last receipt.
Setter(r) ==
    /\ r.state # state
    /\ state' = r.state

SetName ==
    /\ \E caller \in Callers, name \in Names : Setter(api_set_name(state, caller, name))
    /\ UNCHANGED <<auction_state, ret, allowance_log>>

SetLogo ==
    /\ \E caller \in Callers, logo \in Logos : Setter(api_set_logo(state, caller, logo))
    /\ UNCHANGED <<auction_state, ret, allowance_log>>

SetFee ==
    /\ \E caller \in Callers, fee \in Fees : Setter(api_set_fee(state, caller, fee))
    /\ UNCHANGED <<auction_state, ret, allowance_log>>

SetFeeTo ==
    /\ \E caller \in Callers, fee_to \in FeeTos :
          Setter(api_set_feeTo(state, caller, fee_to))
    /\ UNCHANGED <<auction_state, ret, allowance_log>>

SetOwner ==
    /\ \E caller \in Callers, new_owner \in Owners :
          Setter(api_set_owner(state, caller, new_owner))
    /\ UNCHANGED <<auction_state, ret, allowance_log>>

BidCycles ==
    /\ \E bidder \in Bidders, cycles \in CyclesSent :
          LET r == bid_cycles(auction_state, bidder, cycles) IN
          /\ r.err = ""
          /\ r.auction_state.bidding_state.cycles_since_auction <= MaxCycles
          /\ auction_state' = r.auction_state
          /\ ret' = [op |-> "bid_cycles", res |-> Ok(None)]
    /\ UNCHANGED <<state, allowance_log>>

RunAuction(cap) ==
    /\ \E order \in Orders(DOMAIN auction_state.bidding_state.bids),
          new_fee_ratio \in FeeRatios :
          LET r == run_auction(state, auction_state, order, new_fee_ratio) IN
          /\ Call("run_auction", r, cap)
          /\ auction_state' = r.auction_state
    /\ UNCHANGED allowance_log

\* Token operations and the auction.
Next ==
    \/ Transfer(MaxTxs)
    \/ TransferFrom(MaxTxs)
    \/ TransferIncludeFee(MaxTxs)
    \/ BatchTransfer(MaxTxs)
    \/ Approve(MaxTxs)
    \/ Mint(MaxTxs)
    \/ Burn(MaxTxs)
    \/ BidCycles
    \/ RunAuction(MaxTxs)

Spec == Init /\ [][Next]_vars

\* Token operations alone, one record deeper.
NextToken ==
    \/ Transfer(MaxTokenTxs)
    \/ TransferFrom(MaxTokenTxs)
    \/ TransferIncludeFee(MaxTokenTxs)
    \/ BatchTransfer(MaxTokenTxs)
    \/ Approve(MaxTokenTxs)
    \/ Mint(MaxTokenTxs)
    \/ Burn(MaxTokenTxs)

SpecToken == Init /\ [][NextToken]_vars

\* The owner's setters interleaved with the token operations that need no
\* earlier approval.
NextSettings ==
    \/ Transfer(MaxSettingsTxs)
    \/ TransferIncludeFee(MaxSettingsTxs)
    \/ BatchTransfer(MaxSettingsTxs)
    \/ Approve(MaxSettingsTxs)
    \/ Mint(MaxSettingsTxs)
    \/ Burn(MaxSettingsTxs)
    \/ SetName
    \/ SetLogo
    \/ SetFee
    \/ SetFeeTo
    \/ SetOwner

SpecSettings == Init /\ [][NextSettings]_vars

\* The unit tests' context (tests::test_context): alice owner, supply 1000,
\* fee 0, no test token; token quantities in units of 100.
ScenarioMetadata == Meta(10, 0, alice, FALSE)
\* approve(bob, 500) and transfer_from(alice, john, 100 / 300) of
\* tests::transfer_from_with_approve, with a second spender and a smaller
\* allowance beside them.
ScenarioSpenders == {bob, john}
ScenarioApproveAmounts == {2, 5}
ScenarioTransferAmounts == {1, 3}

InitScenario ==
    /\ state = init(ScenarioMetadata)
    /\ auction_state = [bidding_state |-> [bids |-> EmptyMap, cycles_since_auction |-> 0,
                                           fee_ratio |-> 0],
                        history |-> <<>>]
    /\ ret = [op |-> "init", res |-> Ok(0)]
    /\ allowance_log = [p \in Users \X Users |-> [approved |-> 0, spent |-> 0]]

ScenarioApprove ==
    /\ \E spender \in ScenarioSpenders, amount \in ScenarioApproveAmounts :
          LET r == api_approve(state, auction_state, alice, spender, amount) IN
          /\ Call("approve", r, MaxScenarioTxs)
          /\ allowance_log' =
                 IF r.res.tag = "Ok"
                 THEN [allowance_log EXCEPT ![alice, spender] =
                          [approved |-> allowance(r.state.allowances, alice, spender),
                           spent |-> 0]]
                 ELSE allowance_log
    /\ UNCHANGED auction_state

ScenarioTransferFrom ==
    /\ \E caller \in ScenarioSpenders, to \in ScenarioSpenders,
          amount \in ScenarioTransferAmounts :
          LET r == api_transfer_from(state, auction_state, caller, alice, to, amount) IN
          /\ Call("transfer_from", r, MaxScenarioTxs)
          /\ allowance_log' =
                 IF r.res.tag = "Ok"
                 THEN [allowance_log EXCEPT ![alice, caller].spent =
                                                @ + amount + state.stats.fee]
                 ELSE allowance_log
    /\ UNCHANGED auction_state

NextScenario ==
    \/ ScenarioApprove
    \/ ScenarioTransferFrom

SpecScenario == InitScenario /\ [][NextScenario]_vars

\* The ledger over several truncations: transfers, mints, approvals and
\* transfer_from calls of one quantity, up to MaxLedgerTxs ids.
LedgerMetadata == Meta(3, 0, alice, FALSE)
LedgerAmounts == {1}

InitLedger ==
    /\ state = init(LedgerMetadata)
    /\ auction_state = [bidding_state |-> [bids |-> EmptyMap, cycles_since_auction |-> 0,
                                           fee_ratio |-> 0],
                        history |-> <<>>]
    /\ ret = [op |-> "init", res |-> Ok(0)]
    /\ allowance_log = [p \in Users \X Users |-> [approved |-> 0, spent |-> 0]]

LedgerTransfer(cap) ==
    /\ \E caller \in Callers, to \in Recipients, amount \in LedgerAmounts :
          Call("transfer", api_transfer(state, auction_state, caller, to, amount, None),
               cap)
    /\ UNCHANGED <<auction_state, allowance_log>>

LedgerMint(cap) ==
    /\ \E amount \in LedgerAmounts :
          Call("mint", api_mint(state, alice, alice, amount), cap)
    /\ UNCHANGED <<auction_state, allowance_log>>

LedgerApprove(cap) ==
    /\ \E amount \in LedgerAmounts :
          LET r == api_approve(state, auction_state, alice, bob, amount) IN
          /\ Call("approve", r, cap)
          /\ allowance_log' =
                 IF r.res.tag = "Ok"
                 THEN [allowance_log EXCEPT ![alice, bob] =
                          [approved |-> allowance(r.state.allowances, alice, bob),
                           spent |-> 0]]
                 ELSE allowance_log
    /\ UNCHANGED auction_state

LedgerTransferFrom(cap) ==
    /\ \E amount \in LedgerAmounts :
          LET r == api_transfer_from(state, auction_state, bob, alice, john, amount) IN
          /\ Call("transfer_from", r, cap)
          /\ allowance_log' =
                 IF r.res.tag = "Ok"
                 THEN [allowance_log EXCEPT ![alice, bob].spent =
                                                @ + amount + state.stats.fee]
                 ELSE allowance_log
    /\ UNCHANGED auction_state

NextLedger ==
    \/ LedgerTransfer(MaxLedgerTxs)
    \/ LedgerMint(MaxLedgerTxs)
    \/ LedgerApprove(MaxLedgerTxs)
    \/ LedgerTransferFrom(MaxLedgerTxs)

SpecLedger == InitLedger /\ [][NextLedger]_vars

\* Transfers and mints alone, until ids exceed the width of usize.
NextWideLedger ==
    \/ LedgerTransfer(MaxWideLedgerTxs)
    \/ LedgerMint(MaxWideLedgerTxs)

SpecWideLedger == InitLedger /\ [][NextWideLedger]_vars

\* Records under later operations of every kind: the setters and the auction
\* interleaved with transfers and mints, up to MaxHistoryTxs ids.
NextHistory ==
    \/ LedgerTransfer(MaxHistoryTxs)
    \/ LedgerMint(MaxHistoryTxs)
    \/ SetFee
    \/ SetFeeTo
    \/ SetOwner
    \/ BidCycles
    \/ RunAuction(MaxHistoryTxs)

SpecHistory == InitLedger /\ [][NextHistory]_vars

\* The auction of tests::auction_test, in units of 1000 tokens and 1_000_000
\* cycles: the pool is funded by transfers to the auction principal, bids of
\* several sizes are placed, and the auction is run.
AuctionFunds == {1, 6}
AuctionCycles == {2, 4}

AuctionFund ==
    /\ \E amount \in AuctionFunds :
          Call("transfer",
               api_transfer(state, auction_state, alice, auction_principal, amount, None),
               MaxAuctionTxs)
    /\ UNCHANGED <<auction_state, allowance_log>>

AuctionBid ==
    /\ \E bidder \in Bidders, cycles \in AuctionCycles :
          LET r == bid_cycles(auction_state, bidder, cycles) IN
          /\ r.err = ""
          /\ r.auction_state.bidding_state.cycles_since_auction <= MaxAuctionCycles
          /\ auction_state' = r.auction_state
          /\ ret' = [op |-> "bid_cycles", res |-> Ok(None)]
    /\ UNCHANGED <<state, allowance_log>>

NextAuction ==
    \/ AuctionFund
    \/ AuctionBid
    \/ RunAuction(MaxAuctionTxs)

SpecAuction == InitScenario /\ [][NextAuction]_vars

\* The token with every operation of Next and, besides, burn(Some(p), amount)
\* with p the auction principal, which only the owner's call passes.
PoolBurn(cap) ==
    /\ \E caller \in Callers, amount \in BurnAmounts :
          Call("burn", api_burn(state, caller, auction_principal, amount), cap)
    /\ UNCHANGED <<auction_state, allowance_log>>

NextPool ==
    \/ Transfer(MaxTxs)
    \/ TransferFrom(MaxTxs)
    \/ TransferIncludeFee(MaxTxs)
    \/ BatchTransfer(MaxTxs)
    \/ Approve(MaxTxs)
    \/ Mint(MaxTxs)
    \/ Burn(MaxTxs)
    \/ PoolBurn(MaxTxs)
    \/ BidCycles
    \/ RunAuction(MaxTxs)

SpecPool == Init /\ [][NextPool]_vars

\* ------------------------------------------------------------------ properties
\* The operations are examined at every reachable state over these arguments.
AnyCaller == Users
AnyPrincipal == Principals
AnyAmount == 0..MAX_TOKENS
AnyFeeLimit == {None, 0, 1}

RECURSIVE SumOver(_, _)
SumOver(f, S) ==
    IF S = {} THEN 0
    ELSE LET k == CHOOSE x \in S : TRUE IN f[k] + SumOver(f, S \ {k})

\* Sum of all balance entries.
total_balances(balances) == SumOver(balances, DOMAIN balances)

\* The last record the ledger retains (there is always one: init mints).
last_record == state.ledger.history[Len(state.ledger.history)]

\* C1: in every reachable state the sum of all balances equals
\* stats.total_supply, whatever operations (transfers, batch transfers,
\* approvals, mint, burn, auction disbursement) led to it.
C1_TotalSupplyIsSumOfBalances ==
    total_balances(state.balances) = state.stats.total_supply

\* C1 witness: an auction has just paid a non-empty pool out to a bidder.
C1_Witness ==
    /\ ret.op = "run_auction"
    /\ ret.res.tag = "Ok"
    /\ last_record.operation = "Auction"
    /\ last_record.amount > 0
    /\ total_balances(state.balances) = state.stats.total_supply

\* C2: transfer, transfer_include_fee, transfer_from, mint and burn leave the
\* whole canister state (balances, allowances, total_supply, ledger) as it was
\* whenever they return an error.
C2_ErrorLeavesStateUnchanged ==
    /\ \A caller \in AnyCaller, to \in AnyPrincipal, amount \in AnyAmount :
          /\ \A fee_limit \in AnyFeeLimit :
                LET r == api_transfer(state, auction_state, caller, to, amount, fee_limit)
                IN  r.res.tag = "Err" => r.state = state
          /\ LET r == api_transfer_include_fee(state, auction_state, caller, to, amount)
             IN  r.res.tag = "Err" => r.state = state
          /\ \A from \in AnyCaller :
                LET r == api_transfer_from(state, auction_state, caller, from, to, amount)
                IN  r.res.tag = "Err" => r.state = state
          /\ LET r == api_mint(state, caller, to, amount)
             IN  r.res.tag = "Err" => r.state = state
    /\ \A caller \in AnyCaller, from \in AnyPrincipal \cup {NoPrincipal},
          amount \in AnyAmount :
          LET r == api_burn(state, caller, from, amount)
          IN  r.res.tag = "Err" => r.state = state

\* C2 witness: a state with a fee, a split of the fee and an allowance in which
\* each of the five operations returns an error.
C2_Witness ==
    /\ state.stats.fee > 0
    /\ auction_state.bidding_state.fee_ratio > 0
    /\ state.allowances # EmptyMap
    /\ api_transfer(state, auction_state, alice, bob, 3, None).res.err
           = "InsufficientBalance"
    /\ api_transfer_include_fee(state, auction_state, alice, bob, 1).res.err
           = "AmountTooSmall"
    /\ api_transfer_from(state, auction_state, bob, alice, john, 3).res.err
           = "InsufficientAllowance"
    /\ api_burn(state, bob, NoPrincipal, MAX_TOKENS).res.err = "InsufficientBalance"
    /\ api_mint(state, bob, bob, 1).res.err = "Unauthorized"

\* C3: an approve call that returns an error (InsufficientBalance or
\* AmountOverflow) changes no state: no fee charged, allowance unchanged, no
\* record appended.
C3_ApproveErrorLeavesStateUnchanged ==
    \A caller \in AnyCaller, spender \in AnyPrincipal, amount \in AnyAmount :
        LET r == api_approve(state, auction_state, caller, spender, amount)
        IN  r.res.tag = "Err" => r.state = state

\* C4 (state part): every retained record at physical position i carries
\* index vec_offset + i, and every successful mutating call returns the number
\* of records appended before it (a batch: the consecutive ids from there on).
C4_IdsAreHistorySize ==
    /\ \A i \in 1..Len(state.ledger.history) :
          state.ledger.history[i].index = state.ledger.vec_offset + i - 1
    /\ \A caller \in AnyCaller, to \in AnyPrincipal, amount \in AnyAmount :
          /\ \A fee_limit \in FeeLimits :
                LET r == api_transfer(state, auction_state, caller, to, amount, fee_limit)
                IN  r.res.tag = "Ok" => r.res.id = len(state.ledger)
          /\ LET r == api_transfer_include_fee(state, auction_state, caller, to, amount)
             IN  r.res.tag = "Ok" => r.res.id = len(state.ledger)
          /\ \A from \in AnyCaller :
                LET r == api_transfer_from(state, auction_state, caller, from, to, amount)
                IN  r.res.tag = "Ok" => r.res.id = len(state.ledger)
          /\ LET r == api_approve(state, auction_state, caller, to, amount)
             IN  r.res.tag = "Ok" => r.res.id = len(state.ledger)
          /\ LET r == api_mint(state, caller, to, amount)
             IN  r.res.tag = "Ok" => r.res.id = len(state.ledger)
          /\ LET r == api_burn(state, caller, to, amount)
             IN  r.res.tag = "Ok" => r.res.id = len(state.ledger)
    /\ \A caller \in AnyCaller, amount \in AnyAmount :
          LET r == api_burn(state, caller, NoPrincipal, amount)
          IN  r.res.tag = "Ok" => r.res.id = len(state.ledger)
    /\ \A caller \in AnyCaller, transfers \in Batches \cup {<<>>} :
          LET r == api_batch_transfer(state, auction_state, caller, transfers)
          IN  r.res.tag = "Ok" =>
                  r.res.ids = [k \in 1..Len(transfers) |-> len(state.ledger) + k - 1]

\* C4 (step part): history_size never decreases, and the records a step appends
\* carry the ids history_size, history_size + 1, ... in order, without gaps.
C4_IdsGrowWithoutGaps ==
    /\ len(state'.ledger) >= len(state.ledger)
    /\ state'.ledger.vec_offset >= state.ledger.vec_offset
    /\ \A id \in len(state.ledger)..(len(state'.ledger) - 1) :
          id >= state'.ledger.vec_offset =>
              state'.ledger.history[id - state'.ledger.vec_offset + 1].index = id
    /\ len(state'.ledger) > len(state.ledger) =>
          state'.ledger.history[Len(state'.ledger.history)].index
              = len(state'.ledger) - 1

\* C4: TxIds are the count of records appended so far: returned ids equal
\* history_size before the call, appended ids increase by one without gaps,
\* history_size never decreases and retained position i holds index
\* vec_offset + i.
C4_TxIdsAreSequential == [](C4_IdsAreHistorySize) /\ [][C4_IdsGrowWithoutGaps]_vars

\* C4 witness: old records have been dropped (vec_offset > 0) and the last
\* call returned the id of the newest retained record.
C4_Witness ==
    /\ state.ledger.vec_offset > 0
    /\ ret.op = "transfer_from"
    /\ ret.res.tag = "Ok"
    /\ ret.res.id = len(state.ledger) - 1
    /\ last_record.index = ret.res.id

\* The record a call appended, given the ledger it left: the last one.
newest(ledger) == ledger.history[Len(ledger.history)]

\* What a receipt r says about the ledger: Ok appends exactly one record with
\* the given fields, anything else appends none.
AppendsExactly(r, operation, caller, from, to, amount, fee) ==
    IF r.res.tag = "Ok"
    THEN /\ len(r.state.ledger) = len(state.ledger) + 1
         /\ newest(r.state.ledger) =
                [caller |-> caller, index |-> len(state.ledger), from |-> from, to |-> to,
                 amount |-> amount, fee |-> fee, status |-> "Succeeded",
                 operation |-> operation]
    ELSE r.state.ledger = state.ledger

\* C5: each successful transfer, transfer_include_fee, transfer_from, approve,
\* mint or burn appends exactly one record carrying the call's operation kind,
\* caller, from, to, amount and fee (Approve: the requested amount; Burn:
\* to == from; Mint and Burn: fee 0); each failed call appends none.
C5_OneRecordPerSuccessfulCall ==
    /\ \A caller \in AnyCaller, to \in AnyPrincipal, amount \in AnyAmount :
          /\ \A fee_limit \in FeeLimits :
                AppendsExactly(
                    api_transfer(state, auction_state, caller, to, amount, fee_limit),
                    "Transfer", caller, caller, to, amount, state.stats.fee)
          /\ AppendsExactly(
                 api_transfer_include_fee(state, auction_state, caller, to, amount),
                 "Transfer", caller, caller, to, amount, state.stats.fee)
          /\ \A from \in AnyCaller :
                AppendsExactly(
                    api_transfer_from(state, auction_state, caller, from, to, amount),
                    "TransferFrom", caller, from, to, amount, state.stats.fee)
          /\ AppendsExactly(api_approve(state, auction_state, caller, to, amount),
                            "Approve", caller, caller, to, amount, state.stats.fee)
          /\ AppendsExactly(api_mint(state, caller, to, amount),
                            "Mint", caller, caller, to, amount, 0)
          /\ AppendsExactly(api_burn(state, caller, to, amount),
                            "Burn", caller, to, to, amount, 0)
    /\ \A caller \in AnyCaller, amount \in AnyAmount :
          AppendsExactly(api_burn(state, caller, NoPrincipal, amount),
                         "Burn", caller, caller, caller, amount, 0)

\* C5 witness: an approve with a fee has just been recorded with the requested
\* amount, which differs from the allowance it set.
C5_Witness ==
    /\ ret.op = "approve"
    /\ ret.res.tag = "Ok"
    /\ last_record.operation = "Approve"
    /\ last_record.fee > 0
    /\ last_record.amount > 0
    /\ allowance(state.allowances, last_record.from, last_record.to)
           = last_record.amount + last_record.fee

\* The balance change of who that receipt r brings about.
delta(r, who) == balance_of(r.state.balances, who) - balance_of(state.balances, who)

\* C6: a successful transfer applies the European fee: with fee_to and the
\* auction principal distinct from caller and recipient, the caller's balance
\* decreases by exactly amount + fee and the recipient's increases by exactly
\* amount; with amount = 0 the call succeeds (given the fee can be paid),
\* appends a zero-amount Transfer record and still charges the fee.
C6_TransferEuropeanFee ==
    \A caller \in AnyCaller, to \in AnyPrincipal, amount \in AnyAmount,
       fee_limit \in AnyFeeLimit :
        LET r == api_transfer(state, auction_state, caller, to, amount, fee_limit)
            fee == state.stats.fee
            fee_to == state.stats.fee_to
        IN  /\ (/\ r.res.tag = "Ok"
                /\ fee_to \notin {caller, to}
                /\ auction_principal \notin {caller, to})
               => /\ delta(r, caller) = 0 - (amount + fee)
                  /\ delta(r, to) = amount
            /\ (/\ amount = 0
                /\ caller # to
                /\ fee_limit = None \/ fee <= fee_limit
                /\ balance_of(state.balances, caller) >= fee)
               => /\ r.res.tag = "Ok"
                  /\ newest(r.state.ledger).operation = "Transfer"
                  /\ newest(r.state.ledger).amount = 0
                  /\ newest(r.state.ledger).index = r.res.id
                  /\ fee_to # caller /\ auction_principal # caller
                     => delta(r, caller) = 0 - fee

\* C6 witness: a transfer of a positive amount with a fee that is split between
\* fee_to and the auction principal has just succeeded.
C6_Witness ==
    /\ ret.op = "transfer"
    /\ ret.res.tag = "Ok"
    /\ last_record.operation = "Transfer"
    /\ last_record.amount > 0
    /\ last_record.fee > 1
    /\ auction_state.bidding_state.fee_ratio = 1
    /\ state.stats.fee_to \notin {last_record.from, last_record.to}
    /\ auction_principal \notin {last_record.from, last_record.to}
    /\ balance_of(state.balances, auction_principal) > 0

AllowanceSpent(r, caller, from, amount) ==
    LET need == amount + state.stats.fee
        after == r.state.allowances
    IN  /\ allowance(after, from, caller)
               = allowance(state.allowances, from, caller) - need
        /\ allowance(after, from, caller) = 0 =>
               \/ from \notin DOMAIN after
               \/ caller \notin DOMAIN after[from]
        /\ from \in DOMAIN after => DOMAIN after[from] # {}
        /\ \A o \in Principals, s \in Principals :
               <<o, s>> # <<from, caller>> =>
                   /\ allowance(after, o, s) = allowance(state.allowances, o, s)
                   /\ (o \in DOMAIN after /\ s \in DOMAIN after[o])
                          <=> (o \in DOMAIN state.allowances
                               /\ s \in DOMAIN state.allowances[o])

\* C8 as stated: a successful transfer_from debits from by amount + fee and
\* credits to by amount whenever fee_to aliases neither, and reduces
\* allowance(from, caller) by exactly amount + fee with pruning, leaving every
\* other allowance unchanged.
C8_TransferFromAsStated ==
    \A caller \in AnyCaller, from \in AnyCaller, to \in AnyPrincipal, amount \in AnyAmount :
        LET r == api_transfer_from(state, auction_state, caller, from, to, amount) IN
        r.res.tag = "Ok" =>
            /\ state.stats.fee_to \notin {from, to}
               => /\ delta(r, from) = 0 - (amount + state.stats.fee)
                  /\ delta(r, to) = amount
            /\ AllowanceSpent(r, caller, from, amount)

\* C8 (amended): the same, where the credit of exactly amount is stated for a
\* recipient that is neither fee_to nor the auction principal.
C8_TransferFromSpendsAllowance ==
    \A caller \in AnyCaller, from \in AnyCaller, to \in AnyPrincipal, amount \in AnyAmount :
        LET r == api_transfer_from(state, auction_state, caller, from, to, amount) IN
        r.res.tag = "Ok" =>
            /\ state.stats.fee_to \notin {from, to}
               => /\ delta(r, from) = 0 - (amount + state.stats.fee)
                  /\ to # auction_principal => delta(r, to) = amount
            /\ AllowanceSpent(r, caller, from, amount)

\* C8 witness: a transfer_from with a fee has just used up the spender's whole
\* allowance, and the owner's entry is gone.
C8_Witness ==
    /\ ret.op = "transfer_from"
    /\ ret.res.tag = "Ok"
    /\ last_record.operation = "TransferFrom"
    /\ last_record.fee > 0
    /\ last_record.amount > 0
    /\ state.stats.fee_to \notin {last_record.from, last_record.to}
    /\ allowance_log[last_record.from, last_record.caller].approved
           = last_record.amount + last_record.fee
    /\ last_record.from \notin DOMAIN state.allowances

C10_ApproveSetsAllowance ==
    \A caller \in AnyCaller, spender \in AnyPrincipal, amount \in AnyAmount :
        LET r == api_approve(state, auction_state, caller, spender, amount)
            fee == state.stats.fee
        IN  (/\ caller # spender
             /\ balance_of(state.balances, caller) >= fee
             /\ amount + fee <= MAX_TOKENS)
            => /\ r.res.tag = "Ok"
               /\ allowance(r.state.allowances, caller, spender) = amount + fee

\* C10 witness: a second approve for the same pair, for more than the caller
\* holds, has just replaced the allowance set by the first.
C10_Witness ==
    /\ ret.op = "approve"
    /\ ret.res.tag = "Ok"
    /\ Len(state.ledger.history) >= 2
    /\ state.ledger.history[Len(state.ledger.history) - 1].operation = "Approve"
    /\ last_record.operation = "Approve"
    /\ state.ledger.history[Len(state.ledger.history) - 1].from = last_record.from
    /\ state.ledger.history[Len(state.ledger.history) - 1].to = last_record.to
    /\ state.ledger.history[Len(state.ledger.history) - 1].amount > 0
    /\ state.ledger.history[Len(state.ledger.history) - 1].amount # last_record.amount
    /\ last_record.amount > balance_of(state.balances, last_record.from)
    /\ allowance(state.allowances, last_record.from, last_record.to)
           = last_record.amount + last_record.fee

\* What a successful call, receipt r, pays out as fee: the auction principal
\* gains floor(fee * floor(ratio * K) / K), fee_to gains the rest, and the two
\* together gain exactly fee.
FeeSplit(r) ==
    LET fee == state.stats.fee
        fee_to == state.stats.fee_to
        auction_part ==
            (fee * ((auction_state.bidding_state.fee_ratio * INT_CONVERSION_K)
                        \div FeeRatioDen)) \div INT_CONVERSION_K
    IN  /\ delta(r, auction_principal) + delta(r, fee_to) = fee
        /\ delta(r, auction_principal) = auction_part
        /\ delta(r, fee_to) = fee - auction_part

C12_NoZeroBalanceEntry ==
    \A p \in DOMAIN state.balances : state.balances[p] # 0

\* C13: zero-elision of allowances: in every reachable state no (owner,
\* spender) allowance entry has value zero and no owner key maps to an empty
\* inner map.
C13_NoZeroAllowanceEntry ==
    \A o \in DOMAIN state.allowances :
        /\ DOMAIN state.allowances[o] # {}
        /\ \A s \in DOMAIN state.allowances[o] : state.allowances[o][s] # 0

\* C13 witness: a transfer_from has just used up the spender's allowance while
\* the owner still has an allowance for another spender: the spender's entry
\* is gone and the owner's inner map stays.
C13_Witness ==
    /\ ret.op = "transfer_from"
    /\ ret.res.tag = "Ok"
    /\ allowance_log[last_record.from, last_record.caller].approved > 0
    /\ last_record.from \in DOMAIN state.allowances
    /\ last_record.caller \notin DOMAIN state.allowances[last_record.from]
    /\ DOMAIN state.allowances[last_record.from] # {}

\* C14: mint authorization.  While is_test_token is false, mint succeeds only
\* for caller == stats.owner, and any other caller gets Unauthorized with
\* total_supply and balances (the whole state) unchanged.  While is_test_token
\* is true no caller is turned away: the call succeeds whenever total_supply +
\* amount is representable, and a successful mint increases total_supply and
\* the recipient's balance by amount.
C14_MintAuthorization ==
    \A caller \in AnyCaller, to \in AnyPrincipal, amount \in AnyAmount :
        LET r == api_mint(state, caller, to, amount) IN
        /\ ~state.stats.is_test_token =>
              /\ r.res.tag = "Ok" => caller = state.stats.owner
              /\ caller # state.stats.owner =>
                    /\ r.res = Err("Unauthorized")
                    /\ r.state = state
        /\ state.stats.is_test_token =>
              /\ r.res.err # "Unauthorized"
              /\ state.stats.total_supply + amount <= MAX_TOKENS => r.res.tag = "Ok"
        /\ r.res.tag = "Ok" =>
              /\ r.state.stats.total_supply = state.stats.total_supply + amount
              /\ delta(r, to) = amount

\* C14 witness: the token is not a test token, the ownership has passed to bob,
\* bob has just minted a positive amount and alice's mint is turned away.
C14_Witness ==
    /\ ~state.stats.is_test_token
    /\ state.stats.owner = bob
    /\ ret.op = "mint"
    /\ ret.res.tag = "Ok"
    /\ last_record.operation = "Mint"
    /\ last_record.caller = bob
    /\ last_record.amount > 0
    /\ api_mint(state, alice, alice, 1).res.err = "Unauthorized"

C16_OnlyOwnerChangesSettings ==
    \A caller \in AnyCaller :
        LET Guarded(r) ==
                IF caller = state.stats.owner
                THEN r.res.tag = "Ok"
                ELSE r.res = Err("Unauthorized") /\ r.state = state
        IN  /\ \A name \in Names : Guarded(api_set_name(state, caller, name))
            /\ \A logo \in Logos : Guarded(api_set_logo(state, caller, logo))
            /\ \A fee \in AnyAmount : Guarded(api_set_fee(state, caller, fee))
            /\ \A fee_to \in AnyPrincipal : Guarded(api_set_feeTo(state, caller, fee_to))
            /\ \A p \in AnyPrincipal :
                  LET r == api_set_owner(state, caller, p) IN
                  /\ Guarded(r)
                  /\ r.res.tag = "Ok" =>
                        \A c \in AnyCaller :
                            /\ api_set_name(r.state, c, "IS20").res.tag = "Ok" <=> c = p
                            /\ api_set_logo(r.state, c, "logo").res.tag = "Ok" <=> c = p
                            /\ api_set_fee(r.state, c, 1).res.tag = "Ok" <=> c = p
                            /\ api_set_feeTo(r.state, c, c).res.tag = "Ok" <=> c = p
                            /\ api_set_owner(r.state, c, c).res.tag = "Ok" <=> c = p

\* C16 witness: the ownership has passed from alice to bob and settings have
\* been changed; alice's setter is rejected and bob's accepted.
C16_Witness ==
    /\ state.stats.owner = bob
    /\ state.stats.name = "IS20"
    /\ state.stats.fee_to = john
    /\ api_set_fee(state, alice, 1).res.err = "Unauthorized"
    /\ api_set_fee(state, bob, 1).res.tag = "Ok"
    /\ api_set_owner(state, bob, alice).state.stats.owner = alice

\* Every balance and total_supply of s is a representable quantity.
InRange(s) ==
    /\ s.stats.total_supply \in 0..MAX_TOKENS
    /\ \A p \in DOMAIN s.balances : s.balances[p] \in 0..MAX_TOKENS

\* C17: token arithmetic never wraps.  transfer, transfer_from and approve
\* return AmountOverflow when amount + fee exceeds the largest representable
\* quantity (their earlier checks passing), mint returns AmountOverflow when
\* total_supply + amount exceeds it, and in every reachable state, and in the
\* state any call leaves, every balance and total_supply lies within
\* 0..MAX_TOKENS, total_supply being the exact sum of the balances.
C17_ArithmeticNeverWraps ==
    /\ InRange(state)
    /\ total_balances(state.balances) = state.stats.total_supply
    /\ \A caller \in AnyCaller, to \in AnyPrincipal, amount \in AnyAmount :
          LET fee == state.stats.fee
              overflow == amount + fee > MAX_TOKENS
          IN  /\ \A fee_limit \in FeeLimits :
                    LET r == api_transfer(state, auction_state, caller, to, amount,
                                          fee_limit)
                    IN  /\ (/\ overflow
                            /\ caller # to
                            /\ fee_limit = None \/ fee <= fee_limit)
                           => r.res = Err("AmountOverflow")
                        /\ InRange(r.state)
              /\ \A from \in AnyCaller :
                    LET r == api_transfer_from(state, auction_state, caller, from, to,
                                               amount)
                    IN  /\ (overflow /\ from # to) => r.res = Err("AmountOverflow")
                        /\ InRange(r.state)
              /\ LET r == api_approve(state, auction_state, caller, to, amount)
                 IN  /\ (/\ overflow
                         /\ caller # to
                         /\ balance_of(state.balances, caller) >= fee)
                        => r.res = Err("AmountOverflow")
                     /\ InRange(r.state)
              /\ LET r == api_mint(state, caller, to, amount)
                 IN  /\ (/\ state.stats.total_supply + amount > MAX_TOKENS
                         /\ state.stats.is_test_token \/ caller = state.stats.owner)
                        => r.res = Err("AmountOverflow")
                     /\ InRange(r.state)
              /\ InRange(api_transfer_include_fee(state, auction_state, caller, to,
                                                  amount).state)
              /\ InRange(api_burn(state, caller, to, amount).state)

\* C17 witness: a mint has just succeeded in a state with a fee, and a further
\* mint, a transfer, a transfer_from and an approve of the largest quantity
\* are each answered with AmountOverflow there.
C17_Witness ==
    /\ ret.op = "mint"
    /\ ret.res.tag = "Ok"
    /\ last_record.amount > 0
    /\ state.stats.fee > 0
    /\ api_mint(state, alice, bob, MAX_TOKENS).res.err = "AmountOverflow"
    /\ api_transfer(state, auction_state, alice, bob, MAX_TOKENS, None).res.err
           = "AmountOverflow"
    /\ api_transfer_from(state, auction_state, bob, alice, john, MAX_TOKENS).res.err
           = "AmountOverflow"
    /\ api_approve(state, auction_state, alice, bob, MAX_TOKENS).res.err
           = "AmountOverflow"

\* C18 (state part): no call other than mint and burn changes total_supply
\* (transfer, transfer_include_fee, transfer_from, approve, batch_transfer, the
\* setters, auction disbursement); a successful mint adds amount and a
\* successful burn subtracts it, and mint(p, x) followed by burn(Some(p), x)
\* restores the total_supply from before.
C18_OnlyMintAndBurnMoveSupply ==
    LET supply == state.stats.total_supply
        Same(r) == r.state.stats.total_supply = supply
    IN  /\ \A caller \in AnyCaller, to \in AnyPrincipal, amount \in AnyAmount :
              /\ \A fee_limit \in FeeLimits :
                    Same(api_transfer(state, auction_state, caller, to, amount, fee_limit))
              /\ Same(api_transfer_include_fee(state, auction_state, caller, to, amount))
              /\ \A from \in AnyCaller :
                    Same(api_transfer_from(state, auction_state, caller, from, to, amount))
              /\ Same(api_approve(state, auction_state, caller, to, amount))
              /\ LET m == api_mint(state, caller, to, amount)
                     b == api_burn(state, caller, to, amount)
                     mb == api_burn(m.state, caller, to, amount)
                 IN  /\ m.state.stats.total_supply
                            = IF m.res.tag = "Ok" THEN supply + amount ELSE supply
                     /\ b.state.stats.total_supply
                            = IF b.res.tag = "Ok" THEN supply - amount ELSE supply
                     /\ (m.res.tag = "Ok" /\ caller \in {to, state.stats.owner})
                        => /\ mb.res.tag = "Ok"
                           /\ mb.state.stats.total_supply = supply
        /\ \A caller \in AnyCaller :
              /\ \A transfers \in Batches :
                    Same(api_batch_transfer(state, auction_state, caller, transfers))
              /\ \A fee \in AnyAmount : Same(api_set_fee(state, caller, fee))
              /\ \A to \in AnyPrincipal :
                    /\ Same(api_set_feeTo(state, caller, to))
                    /\ Same(api_set_owner(state, caller, to))
              /\ \A name \in Names : Same(api_set_name(state, caller, name))
              /\ \A logo \in Logos : Same(api_set_logo(state, caller, logo))
        /\ \A order \in Orders(DOMAIN auction_state.bidding_state.bids),
              new_fee_ratio \in FeeRatios :
              Same(run_auction(state, auction_state, order, new_fee_ratio))

\* C18 (step part): a step that appends a Mint record raises total_supply by
\* the record's amount, a step that appends a Burn record lowers it by the
\* record's amount, and every other step leaves it unchanged.
C18_SupplyFollowsMintAndBurn ==
    LET grew == len(state'.ledger) > len(state.ledger)
        rec == newest(state'.ledger)
    IN  state'.stats.total_supply =
            IF grew /\ rec.operation = "Mint"
            THEN state.stats.total_supply + rec.amount
            ELSE IF grew /\ rec.operation = "Burn"
            THEN state.stats.total_supply - rec.amount
            ELSE state.stats.total_supply

\* C18: total_supply changes only through mint (+amount) and burn (-amount),
\* so that after any sequence it is the initial supply plus the amounts minted
\* minus the amounts burned, and mint(p, x); burn(Some(p), x) restores it.
C18_SupplyChangesOnlyByMintAndBurn ==
    [](C18_OnlyMintAndBurnMoveSupply) /\ [][C18_SupplyFollowsMintAndBurn]_vars

\* C18 witness: a mint to a holder, then a burn of the same amount from the
\* same holder, have brought total_supply back to the initial supply.
C18_Witness ==
    /\ ret.op = "burn"
    /\ ret.res.tag = "Ok"
    /\ Len(state.ledger.history) >= 2
    /\ last_record.operation = "Burn"
    /\ last_record.amount > 0
    /\ state.ledger.history[Len(state.ledger.history) - 1].operation = "Mint"
    /\ state.ledger.history[Len(state.ledger.history) - 1].amount = last_record.amount
    /\ state.ledger.history[Len(state.ledger.history) - 1].to = last_record.from
    /\ len(state.ledger) = 3
    /\ state.stats.total_supply = 3

\* C19 as stated: for any fee setting, after a successful approve(p, 0) the
\* query allowance(caller, p) returns zero, and the caller's allowance entry is
\* fully pruned (no owner key left) if p was its only spender.
C19_ApproveZeroAsStated ==
    \A caller \in AnyCaller, p \in AnyPrincipal :
        LET r == api_approve(state, auction_state, caller, p, 0) IN
        r.res.tag = "Ok" =>
            /\ allowance(r.state.allowances, caller, p) = 0
            /\ (\A o \in AnyPrincipal \ {p} : allowance(state.allowances, caller, o) = 0)
               => caller \notin DOMAIN r.state.allowances

\* C19 (amended): after a successful approve(p, 0) the query
\* allowance(caller, p) returns the fee; when the fee is zero it returns zero,
\* the spender's entry is gone, and the caller's allowance entry is fully
\* pruned (no owner key left) if p was its only spender.
C19_ApproveZeroClearsAllowance ==
    \A caller \in AnyCaller, p \in AnyPrincipal :
        LET r == api_approve(state, auction_state, caller, p, 0) IN
        r.res.tag = "Ok" =>
            /\ allowance(r.state.allowances, caller, p) = state.stats.fee
            /\ state.stats.fee = 0 =>
                  /\ allowance(r.state.allowances, caller, p) = 0
                  /\ caller \in DOMAIN r.state.allowances
                     => p \notin DOMAIN r.state.allowances[caller]
                  /\ (\A o \in AnyPrincipal \ {p} :
                          allowance(state.allowances, caller, o) = 0)
                     => caller \notin DOMAIN r.state.allowances

\* C19 witness: with fee 0 an approve of a positive amount has been followed
\* by an approve of 0 for the same spender, and the owner's entry is gone.
C19_Witness ==
    /\ ret.op = "approve"
    /\ ret.res.tag = "Ok"
    /\ state.stats.fee = 0
    /\ Len(state.ledger.history) >= 2
    /\ last_record.operation = "Approve"
    /\ last_record.amount = 0
    /\ state.ledger.history[Len(state.ledger.history) - 1].operation = "Approve"
    /\ state.ledger.history[Len(state.ledger.history) - 1].amount > 0
    /\ state.ledger.history[Len(state.ledger.history) - 1].from = last_record.from
    /\ state.ledger.history[Len(state.ledger.history) - 1].to = last_record.to
    /\ last_record.from \notin DOMAIN state.allowances

\* The scenario so far: alice's approve(bob, 500) and then k successful
\* transfer_from(alice, john, 100) by bob, and nothing else (units of 100).
AfterApproveAndTransfers(k) ==
    /\ len(state.ledger) = 2 + k
    /\ \A i \in 1..2 :
          LET rec == state.ledger.history[Len(state.ledger.history) - i + 1] IN
          IF i <= k
          THEN /\ rec.operation = "TransferFrom"
               /\ <<rec.caller, rec.from, rec.to, rec.amount>> = <<bob, alice, john, 1>>
          ELSE i = k + 1 =>
                   /\ rec.operation = "Approve"
                   /\ <<rec.caller, rec.to, rec.amount>> = <<alice, bob, 5>>
    /\ allowance_log[alice, bob] = [approved |-> 5, spent |-> k]
    /\ allowance(state.allowances, alice, bob) = 5 - k
    /\ balance_of(state.balances, alice) = 10 - k
    /\ balance_of(state.balances, john) = k

\* The end of the scenario in the state s: alice and john hold 500 each and
\* allowance(alice, bob) is 0 with alice's entry pruned.
ScenarioEnd(s) ==
    /\ balance_of(s.balances, alice) = 5
    /\ balance_of(s.balances, john) = 5
    /\ allowance(s.allowances, alice, bob) = 0
    /\ alice \notin DOMAIN s.allowances

\* C20 as stated (alice owner, supply 1000, fee 0): after alice's
\* approve(bob, 500), bob's transfer_from(alice, john, 100) succeeds three
\* times and then transfer_from(alice, john, 300) succeeds, ending with
\* balance_of(alice) = 500, balance_of(john) = 500 and allowance(alice, bob) = 0
\* with the entry pruned.
C20_ScenarioAsStated ==
    /\ state = init(ScenarioMetadata)
       => api_approve(state, auction_state, alice, bob, 5).res.tag = "Ok"
    /\ \A k \in 0..2 :
          AfterApproveAndTransfers(k)
          => api_transfer_from(state, auction_state, bob, alice, john, 1).res.tag = "Ok"
    /\ AfterApproveAndTransfers(3)
       => LET r == api_transfer_from(state, auction_state, bob, alice, john, 3) IN
          r.res.tag = "Ok" /\ ScenarioEnd(r.state)

\* C20 (amended): the same with transfer_from(alice, john, 100) succeeding
\* twice before the transfer_from(alice, john, 300), which then uses up the
\* allowance of 500.
C20_ScenarioAllowanceUsedUp ==
    /\ state = init(ScenarioMetadata)
       => api_approve(state, auction_state, alice, bob, 5).res.tag = "Ok"
    /\ \A k \in 0..1 :
          AfterApproveAndTransfers(k)
          => LET r == api_transfer_from(state, auction_state, bob, alice, john, 1) IN
             /\ r.res.tag = "Ok"
             /\ balance_of(r.state.balances, alice) = 10 - (k + 1)
             /\ balance_of(r.state.balances, john) = k + 1
    /\ AfterApproveAndTransfers(2)
       => LET r == api_transfer_from(state, auction_state, bob, alice, john, 3) IN
          r.res.tag = "Ok" /\ ScenarioEnd(r.state)

\* C20 witness: the scenario has run to its end: approve(bob, 500), two
\* transfers of 100 and the transfer of 300 that has just succeeded.
C20_Witness ==
    /\ ret.op = "transfer_from"
    /\ ret.res.tag = "Ok"
    /\ len(state.ledger) = 5
    /\ last_record =
           TxRecord_transfer_from(4, bob, alice, john, 3, 0)
    /\ allowance_log[alice, bob] = [approved |-> 5, spent |-> 5]
    /\ ScenarioEnd(state)

\* C21 (state part): the physical history never holds more than
\* MAX_HISTORY_LENGTH + HISTORY_REMOVAL_BATCH_SIZE records; an append that would
\* exceed it discards exactly the oldest HISTORY_REMOVAL_BATCH_SIZE records and
\* advances vec_offset by as much, any other append discards none; and once
\* MAX_HISTORY_LENGTH + HISTORY_REMOVAL_BATCH_SIZE + 1 records were appended,
\* vec_offset is HISTORY_REMOVAL_BATCH_SIZE and the id one below it is gone.
C21_HistoryIsBounded ==
    LET limit == MAX_HISTORY_LENGTH + HISTORY_REMOVAL_BATCH_SIZE
        h == state.ledger.history
    IN  /\ Len(h) <= limit
        /\ len(state.ledger) = limit + 1
               => /\ state.ledger.vec_offset = HISTORY_REMOVAL_BATCH_SIZE
                  /\ get(state.ledger, HISTORY_REMOVAL_BATCH_SIZE - 1) = NoRecord
        /\ \A caller \in AnyCaller, to \in AnyPrincipal, amount \in AnyAmount :
              LET record == TxRecord_transfer(next_id(state.ledger), caller, to, amount,
                                              state.stats.fee)
                  after == push(state.ledger, record)
                  dropped == IF Len(h) + 1 > limit THEN HISTORY_REMOVAL_BATCH_SIZE ELSE 0
              IN  /\ after.vec_offset = state.ledger.vec_offset + dropped
                  /\ Len(after.history) = Len(h) + 1 - dropped
                  /\ Len(after.history) <= limit
                  /\ \A i \in 1..Len(after.history) :
                        after.history[i] = Append(h, record)[i + dropped]

\* C21 (step part): a step that appends one record advances vec_offset by
\* HISTORY_REMOVAL_BATCH_SIZE when the history was full and leaves it alone
\* otherwise, and the history shrinks by exactly what vec_offset advanced.
C21_TruncatesOneBatch ==
    len(state'.ledger) = len(state.ledger) + 1
    => /\ state'.ledger.vec_offset - state.ledger.vec_offset
              = IF Len(state.ledger.history) + 1
                       > MAX_HISTORY_LENGTH + HISTORY_REMOVAL_BATCH_SIZE
                THEN HISTORY_REMOVAL_BATCH_SIZE
                ELSE 0
       /\ Len(state'.ledger.history)
              = Len(state.ledger.history) + 1
                    - (state'.ledger.vec_offset - state.ledger.vec_offset)

\* C21: ledger memory is bounded: the physical history never exceeds
\* MAX_HISTORY_LENGTH + HISTORY_REMOVAL_BATCH_SIZE between operations, an append
\* beyond it discards exactly the oldest batch in one step and advances
\* vec_offset by the batch size, and after
\* MAX_HISTORY_LENGTH + HISTORY_REMOVAL_BATCH_SIZE + 1 appends vec_offset equals
\* the batch size and get(batch size - 1) is None.
C21_LedgerMemoryIsBounded == [](C21_HistoryIsBounded) /\ [][C21_TruncatesOneBatch]_vars

\* C21 witness: exactly MAX_HISTORY_LENGTH + HISTORY_REMOVAL_BATCH_SIZE + 1
\* records were appended, the first batch is gone and the rest is retained.
C21_Witness ==
    /\ len(state.ledger) = MAX_HISTORY_LENGTH + HISTORY_REMOVAL_BATCH_SIZE + 1
    /\ state.ledger.vec_offset = HISTORY_REMOVAL_BATCH_SIZE
    /\ Len(state.ledger.history) = MAX_HISTORY_LENGTH + 1
    /\ get(state.ledger, HISTORY_REMOVAL_BATCH_SIZE - 1) = NoRecord
    /\ get(state.ledger, HISTORY_REMOVAL_BATCH_SIZE) # NoRecord

\* The number of records appended after the one with this id.
newer(id) == len(state.ledger) - 1 - id

\* get(id) returns the record appended under this id.
Resolves(ledger, id) == get(ledger, id) # NoRecord /\ get(ledger, id)[1].index = id

C23_GetResolvesRetainedIds ==
    LET h == state.ledger.history
        offset == state.ledger.vec_offset
    IN  \A id \in 0..(len(state.ledger) + 1) :
            IF id < offset \/ id >= offset + Len(h)
            THEN get(state.ledger, id) = NoRecord
            ELSE /\ get(state.ledger, id) = Some(h[id - offset + 1])
                 /\ h[id - offset + 1].index = id

\* C23 (step part): an id that get no longer resolves although it was assigned
\* is not resolved after the step either.
C23_TruncatedStaysUnresolved ==
    \A id \in 0..(len(state.ledger) - 1) :
        get(state.ledger, id) = NoRecord => get(state'.ledger, id) = NoRecord

\* C23: get(id) is None below vec_offset and from vec_offset + retained length
\* on, otherwise the retained record with that index; a truncated id is never
\* resolved again, to its record or to another.
C23_GetContract ==
    [](C23_GetResolvesRetainedIds) /\ [][C23_TruncatedStaysUnresolved]_vars

\* Arguments of get_transactions examined at every reachable ledger.
AnyWho == Principals \cup {NoPrincipal}
AnyCount == 0..(MAX_TRANSACTION_QUERY_LEN + 2)
AnyStart == {None} \cup 0..(len(state.ledger) + 1)

\* Positions of the retained records that pass the filters of who and start.
Matching(who, start) ==
    {k \in 1..Len(state.ledger.history) :
        LET tx == state.ledger.history[k]
        IN  /\ who = NoPrincipal \/ who \in {tx.from, tx.to, tx.caller}
            /\ start = None \/ tx.index <= start}

\* The k-th newest of the matching records, k = 1 the newest.
RECURSIVE NewestMatching(_, _)
NewestMatching(positions, k) ==
    LET top == CHOOSE p \in positions : \A q \in positions : q <= p
    IN  IF k = 1 THEN state.ledger.history[top]
        ELSE NewestMatching(positions \ {top}, k - 1)

\* C24: get_transactions(who, count, start) returns at most
\* min(count, MAX_TRANSACTION_QUERY_LEN) records, in strictly descending index
\* order, each a retained record that passes the filters of who and start, and
\* they are exactly the newest such records; it returns for every argument
\* (no trap).
C24_NewestMatchingRecordsFirst ==
    \A who \in AnyWho, count \in AnyCount, start \in AnyStart :
        LET result == api_get_transactions(state, who, count, start).result
            most == IF count < MAX_TRANSACTION_QUERY_LEN
                    THEN count ELSE MAX_TRANSACTION_QUERY_LEN
            matching == Matching(who, start)
        IN  /\ Len(result) <= most
            /\ \A i, j \in 1..Len(result) : i < j => result[i].index > result[j].index
            /\ \A i \in 1..Len(result) :
                  \E k \in matching : result[i] = state.ledger.history[k]
            /\ Len(result) = IF Cardinality(matching) < most
                             THEN Cardinality(matching) ELSE most
            /\ \A i \in 1..Len(result) : result[i] = NewestMatching(matching, i)

\* C24 witness: three records are retained after a truncation, a query for all
\* of them is cut to MAX_TRANSACTION_QUERY_LEN records, and a query for john's
\* with a start below the newest id leaves out records on both filters.
C24_Witness ==
    /\ state.ledger.vec_offset > 0
    /\ Len(state.ledger.history) = 3
    /\ Len(api_get_transactions(state, NoPrincipal, 3, None).result)
           = MAX_TRANSACTION_QUERY_LEN
    /\ Cardinality(Matching(john, len(state.ledger) - 2)) = 1
    /\ Cardinality(Matching(john, None)) = 2
    /\ Cardinality(Matching(NoPrincipal, len(state.ledger) - 2)) = 2
    /\ Len(api_get_transactions(state, john, 3, len(state.ledger) - 2).result) = 1

\* C25: Ledger::get_transactions sets next exactly when more than count
\* records pass the filters, to the index of the newest matching record that
\* is not in result, and result then holds count records; otherwise next is
\* None and result holds every matching record.  The endpoint does the same
\* for the count it passes on, min(count, MAX_TRANSACTION_QUERY_LEN).
C25_NextIsFirstRecordLeftOut ==
    \A who \in AnyWho, count \in AnyCount, start \in AnyStart :
        LET page == get_transactions(state.ledger, who, count, start)
            most == IF count < MAX_TRANSACTION_QUERY_LEN
                    THEN count ELSE MAX_TRANSACTION_QUERY_LEN
            matching == Matching(who, start)
        IN  /\ IF Cardinality(matching) > count
               THEN /\ page.next = NewestMatching(matching, count + 1).index
                    /\ Len(page.result) = count
               ELSE /\ page.next = None
                    /\ Len(page.result) = Cardinality(matching)
            /\ \A i \in 1..Len(page.result) :
                  page.result[i] = NewestMatching(matching, i)
            /\ api_get_transactions(state, who, count, start)
                   = get_transactions(state.ledger, who, most, start)

\* C25 witness: of three retained records two are john's, the newer of them
\* not the newest record; a page of one for john names the older one as next,
\* and the page from there has no next.
C25_Witness ==
    /\ Len(state.ledger.history) = 3
    /\ Cardinality(Matching(john, None)) = 2
    /\ last_record.to # john
    /\ LET page == get_transactions(state.ledger, john, 1, None)
       IN  /\ page.next = state.ledger.vec_offset
           /\ Len(page.result) = 1
           /\ page.result[1].index = state.ledger.vec_offset + 1
           /\ get_transactions(state.ledger, john, 1, page.next).next = None
           /\ Len(get_transactions(state.ledger, john, 1, page.next).result) = 1

\* The share of the pool that the bid of this bidder earns.
Share(bidder) ==
    (balance_of(state.balances, auction_principal)
        * auction_state.bidding_state.bids[bidder])
    \div auction_state.bidding_state.cycles_since_auction

\* C26: with bids in the book, disburse_rewards pays every bidder exactly
\* floor(pool * cycles / cycles_since_auction), pool being the auction
\* principal's balance at the start; the shares add up to at most pool,
\* tokens_distributed is their sum, the remainder stays with the auction
\* principal and nobody else's balance moves, whatever the order of the bids.
C26_ProRataShares ==
    LET bids == auction_state.bidding_state.bids
        pool == balance_of(state.balances, auction_principal)
        shares == [b \in DOMAIN bids |-> Share(b)]
        sum == SumOver(shares, DOMAIN bids)
    IN  DOMAIN bids # {} =>
        \A order \in Orders(DOMAIN bids) :
            LET d == disburse_rewards(state, auction_state, order) IN
            /\ d.err = ""
            /\ \A b \in DOMAIN bids :
                  balance_of(d.state.balances, b) = balance_of(state.balances, b) + shares[b]
            /\ sum <= pool
            /\ d.info.tokens_distributed = sum
            /\ balance_of(d.state.balances, auction_principal) = pool - sum
            /\ \A p \in Users \ DOMAIN bids :
                  balance_of(d.state.balances, p) = balance_of(state.balances, p)
            /\ \A new_fee_ratio \in FeeRatios :
                  LET r == run_auction(state, auction_state, order, new_fee_ratio)
                  IN  r.res.tag = "Ok" /\ r.state = d.state

\* C26 witness: the auction of tests::auction_test has just been run: bids of
\* 2 and 4 on a pool of 6 have paid 2 to alice and 4 to bob and emptied the pool.
C26_Witness ==
    /\ ret.op = "run_auction"
    /\ ret.res.tag = "Ok"
    /\ Len(auction_state.history) = 1
    /\ auction_state.history[1].tokens_distributed = 6
    /\ auction_state.history[1].cycles_collected = 6
    /\ auction_state.history[1].last_transaction_id
           = auction_state.history[1].first_transaction_id + 1
    /\ \E i, j \in 1..Len(state.ledger.history) :
          /\ state.ledger.history[i] = TxRecord_auction(state.ledger.history[i].index, alice, 2)
          /\ state.ledger.history[j] = TxRecord_auction(state.ledger.history[j].index, bob, 4)
    /\ balance_of(state.balances, bob) = 4
    /\ balance_of(state.balances, alice) = 6
    /\ balance_of(state.balances, auction_principal) = 0

AnyPair == AnyPrincipal \X {1, MAX_TOKENS}
AnyBatch == {<<>>} \cup {<<p>> : p \in AnyPair} \cup {<<p, q>> : p \in AnyPair, q \in AnyPair}

\* The sum of amount + fee over the list.
RECURSIVE SumWithFee(_, _)
SumWithFee(transfers, fee) ==
    IF transfers = <<>> THEN 0
    ELSE Head(transfers)[2] + fee + SumWithFee(Tail(transfers), fee)

AnyHolderStart == 0..(Cardinality(DOMAIN state.balances) + 1)
AnyHolderLimit == {0, 1, 2, USIZE_MAX}

\* The (principal, balance) pairs of the holders in every order that is
\* descending by balance.
DescendingOrders ==
    {o \in {[i \in 1..Len(order) |-> <<order[i], state.balances[order[i]]>>] :
                order \in iter(DOMAIN state.balances)} :
        \A i \in 1..(Len(o) - 1) : o[i][2] >= o[i + 1][2]}

\* Positions [from, to) of a list, counted from 0.
Slice(list, from, to) == [i \in 1..(IF to > from THEN to - from ELSE 0) |-> list[from + i]]

\* What C29 says of one call: it returns positions [start, min(start + limit,
\* len)) of the holders in an order that is descending by balance.
ReturnsSlice(order, start, limit) ==
    LET r == get_holders(state.balances, order, start, limit)
        n == Cardinality(DOMAIN state.balances)
        to == IF start + limit < n THEN start + limit ELSE n
    IN  /\ ~r.trap
        /\ \E full \in DescendingOrders : r.holders = Slice(full, start, to)

\* C29: for every start and limit, get_holders(start, limit) returns the
\* (principal, balance) pairs sorted by balance descending, sliced to positions
\* [start, min(start + limit, len)) of that order, len being the number of
\* holders.
C29_HoldersSlice ==
    \A order \in iter(DOMAIN state.balances) :
        \A start \in AnyHolderStart, limit \in AnyHolderLimit :
            ReturnsSlice(order, start, limit)

\* The same for the calls whose start is at most the number of holders and
\* whose start + limit fits a usize; every other call traps.
C29_HoldersSliceWithinRange ==
    \A order \in iter(DOMAIN state.balances) :
        \A start \in AnyHolderStart, limit \in AnyHolderLimit :
            IF start <= Cardinality(DOMAIN state.balances) /\ start + limit <= USIZE_MAX
            THEN ReturnsSlice(order, start, limit)
            ELSE get_holders(state.balances, order, start, limit).trap

\* Three holders, two of them with equal balances, are listed.
C29_HoldersWitness ==
    /\ Cardinality(DOMAIN state.balances) >= 3
    /\ \E p, q \in DOMAIN state.balances :
          p # q /\ state.balances[p] = state.balances[q] /\ state.balances[p] > 0
    /\ Cardinality(DescendingOrders) >= 2

\* C30: records are immutable once appended: in every step, whatever the
\* operation (set_fee, set_feeTo, set_owner, transfers, mints, bids, auction
\* disbursement), get(id) of a retained id is the same record afterwards unless
\* the id has been truncated, and a truncated id stays unresolved.
C30_RecordsAreImmutable ==
    [][\A id \in 0..(len(state.ledger) - 1) :
          LET before == get(state.ledger, id)
              after == get(state'.ledger, id)
          IN  IF before = NoRecord
              THEN after = NoRecord
              ELSE \/ after = before
                   \/ after = NoRecord /\ id < state'.ledger.vec_offset]_vars

\* C30 witness: a Transfer record is still retained, with the fee it was
\* appended with, after the fee, the fee recipient and the owner have been
\* changed and an auction has disbursed on top of it.
C30_Witness ==
    /\ state.stats.fee # 0
    /\ state.stats.fee_to # LedgerMetadata.fee_to
    /\ state.stats.owner # LedgerMetadata.owner
    /\ \E i, j \in 1..Len(state.ledger.history) :
          /\ i < j
          /\ state.ledger.history[i].operation = "Transfer"
          /\ get(state.ledger, state.ledger.history[i].index)
                = Some(state.ledger.history[i])
          /\ state.ledger.history[i].fee # state.stats.fee
          /\ state.ledger.history[j].operation = "Auction"

\* The call returned a typed error or completed: none of the `expect`s of the
\* code was violated.
NotFatal(r) == r.res.tag # "Trap"

\* C31: no core operation hits a fatal logic error: from every reachable state
\* and for every argument choice (amount 0, fee 0, absent balance or allowance
\* entries included), transfer, transfer_from, approve, mint, burn and auction
\* disbursement return a typed error or complete; none of the internal
\* 'never fails' expectations is violated.
C31_NoFatalLogicError ==
    /\ \A caller \in AnyCaller, to \in AnyPrincipal, amount \in AnyAmount :
          /\ \A fee_limit \in FeeLimits :
                NotFatal(api_transfer(state, auction_state, caller, to, amount, fee_limit))
          /\ \A from \in AnyCaller :
                NotFatal(api_transfer_from(state, auction_state, caller, from, to, amount))
          /\ NotFatal(api_approve(state, auction_state, caller, to, amount))
          /\ NotFatal(api_mint(state, caller, to, amount))
          /\ NotFatal(api_burn(state, caller, to, amount))
    /\ \A caller \in AnyCaller, amount \in AnyAmount :
          NotFatal(api_burn(state, caller, NoPrincipal, amount))
    /\ \A order \in Orders(DOMAIN auction_state.bidding_state.bids),
          new_fee_ratio \in FeeRatios :
          NotFatal(run_auction(state, auction_state, order, new_fee_ratio))

\* The same with the one fatal call singled out: transfer_from of amount 0
\* under fee 0 by a spender without an allowance entry passes both sufficiency
\* checks (0 < 0 is false) and then expects the entry; every other call
\* returns a typed error or completes.
C31_OnlyZeroTransferFromIsFatal ==
    /\ \A caller \in AnyCaller, to \in AnyPrincipal, amount \in AnyAmount :
          /\ \A fee_limit \in FeeLimits :
                NotFatal(api_transfer(state, auction_state, caller, to, amount, fee_limit))
          /\ \A from \in AnyCaller :
                ~NotFatal(api_transfer_from(state, auction_state, caller, from, to, amount))
                    <=> /\ from # to
                        /\ amount = 0
                        /\ state.stats.fee = 0
                        /\ \/ from \notin DOMAIN state.allowances
                           \/ caller \notin DOMAIN state.allowances[from]
          /\ NotFatal(api_approve(state, auction_state, caller, to, amount))
          /\ NotFatal(api_mint(state, caller, to, amount))
          /\ NotFatal(api_burn(state, caller, to, amount))
    /\ \A caller \in AnyCaller, amount \in AnyAmount :
          NotFatal(api_burn(state, caller, NoPrincipal, amount))
    /\ \A order \in Orders(DOMAIN auction_state.bidding_state.bids),
          new_fee_ratio \in FeeRatios :
          NotFatal(run_auction(state, auction_state, order, new_fee_ratio))

\* C32: transfer reports the first precondition that fails, in the order
\* SelfTransfer (to = caller), FeeExceededLimit (fee_limit set and fee >
\* fee_limit; fee = fee_limit passes), AmountOverflow (amount + fee overflows),
\* InsufficientBalance (balance_of(caller) < amount + fee), and succeeds
\* exactly when none applies.
C32_TransferReportsFirstFailure ==
    \A caller \in AnyCaller, to \in AnyPrincipal, amount \in AnyAmount,
       fee_limit \in AnyFeeLimit :
        LET r == api_transfer(state, auction_state, caller, to, amount, fee_limit)
            fee == state.stats.fee
        IN  IF to = caller
            THEN r.res = Err("SelfTransfer")
            ELSE IF fee_limit # None /\ fee > fee_limit
            THEN r.res = Err("FeeExceededLimit")
            ELSE IF amount + fee > MAX_TOKENS
            THEN r.res = Err("AmountOverflow")
            ELSE IF balance_of(state.balances, caller) < amount + fee
            THEN r.res = Err("InsufficientBalance")
            ELSE r.res.tag = "Ok"

\* C32 witness: a transfer has just succeeded under fee 1; repeated with
\* fee_limit 1 it passes the limit, with fee_limit 0 and the largest amount
\* it reports the limit and not the overflow, and to the caller itself it
\* reports SelfTransfer before both.
C32_Witness ==
    /\ ret.op = "transfer"
    /\ ret.res.tag = "Ok"
    /\ state.stats.fee = 1
    /\ last_record.operation = "Transfer"
    /\ api_transfer(state, auction_state, last_record.from, last_record.to, 0, 1).res.tag
           = "Ok"
    /\ api_transfer(state, auction_state, last_record.from, last_record.to,
                    MAX_TOKENS, 0).res.err = "FeeExceededLimit"
    /\ api_transfer(state, auction_state, last_record.from, last_record.to,
                    MAX_TOKENS, 1).res.err = "AmountOverflow"
    /\ api_transfer(state, auction_state, last_record.from, last_record.from,
                    MAX_TOKENS, 0).res.err = "SelfTransfer"

\* C33: transfer_from reports the first failing precondition in the order
\* SelfTransfer (from = to), AmountOverflow (amount + fee overflows),
\* InsufficientAllowance (allowance(from, caller) < amount + fee, also when no
\* approval exists), InsufficientBalance (balance_of(from) < amount + fee); an
\* under-approved spender gets InsufficientAllowance even if the owner's
\* balance is too small as well.
C33_TransferFromReportsFirstFailure ==
    \A caller \in AnyCaller, from \in AnyPrincipal, to \in AnyPrincipal,
       amount \in AnyAmount :
        LET r == api_transfer_from(state, auction_state, caller, from, to, amount)
            need == amount + state.stats.fee
        IN  IF from = to
            THEN r.res = Err("SelfTransfer")
            ELSE IF need > MAX_TOKENS
            THEN r.res = Err("AmountOverflow")
            ELSE IF allowance(state.allowances, from, caller) < need
            THEN r.res = Err("InsufficientAllowance")
            ELSE IF balance_of(state.balances, from) < need
            THEN r.res = Err("InsufficientBalance")
            ELSE r.res.tag \in {"Ok", "Trap"}

\* C33 witness: after a successful transfer_from the spender still holds a
\* nonzero allowance; an amount above both that allowance and the owner's
\* balance is reported as InsufficientAllowance, one within the allowance but
\* above the balance as InsufficientBalance, and a spender without any
\* approval gets InsufficientAllowance.
C33_Witness ==
    /\ ret.op = "transfer_from"
    /\ ret.res.tag = "Ok"
    /\ last_record.operation = "TransferFrom"
    /\ allowance(state.allowances, last_record.from, last_record.caller) > 0
    /\ \E amount \in AnyAmount :
          /\ amount + state.stats.fee <= MAX_TOKENS
          /\ amount + state.stats.fee
                > allowance(state.allowances, last_record.from, last_record.caller)
          /\ amount + state.stats.fee > balance_of(state.balances, last_record.from)
          /\ api_transfer_from(state, auction_state, last_record.caller, last_record.from,
                               last_record.to, amount).res.err = "InsufficientAllowance"
    /\ \E amount \in AnyAmount :
          api_transfer_from(state, auction_state, last_record.caller, last_record.from,
                            last_record.to, amount).res.err = "InsufficientBalance"
    /\ allowance(state.allowances, last_record.from, john) = 0
    /\ api_transfer_from(state, auction_state, john, last_record.from, bob,
                         1).res.err = "InsufficientAllowance"

\* Fee ratios in [0, 1] as pairs (num, den): the ratio in force and every
\* ratio of denominator up to MaxRatioDen, those that are no multiple of
\* 1 / INT_CONVERSION_K included.
AnyRatio ==
    {<<auction_state.bidding_state.fee_ratio, FeeRatioDen>>}
        \cup {nd \in (0..MaxRatioDen) \X (1..MaxRatioDen) : nd[1] <= nd[2]}

C35_OneAuctionRecordPerBidder ==
    LET bids == auction_state.bidding_state.bids
        n == Cardinality(DOMAIN bids)
        first == len(state.ledger)
    IN  DOMAIN bids # {} =>
        \A order \in Orders(DOMAIN bids) :
            LET d == disburse_rewards(state, auction_state, order) IN
            /\ d.err = ""
            /\ len(d.state.ledger) = first + n
            /\ \A k \in 1..n :
                  LET record == get(d.state.ledger, first + k - 1) IN
                  /\ record # NoRecord
                  /\ record[1].operation = "Auction"
                  /\ record[1].index = first + k - 1
                  /\ record[1].to = order[k]
                  /\ record[1].from = order[k]
                  /\ record[1].amount = Share(order[k])
                  /\ record[1].fee = 0
            /\ d.info.auction_id = Len(auction_state.history)
            /\ d.info.first_transaction_id = first
            /\ d.info.last_transaction_id = first + n - 1
            /\ \A new_fee_ratio \in FeeRatios :
                  LET r == run_auction(state, auction_state, order, new_fee_ratio) IN
                  /\ r.res = Ok(Len(auction_state.history))
                  /\ r.state.ledger = d.state.ledger
                  /\ r.auction_state.history = Append(auction_state.history, d.info)

\* C35 witness: an auction with two bidders over a pool too small to share
\* has just been settled; its two Auction records, both for a zero share, are
\* the newest of the ledger, under the ids its AuctionInfo names.
C35_Witness ==
    /\ ret.op = "run_auction"
    /\ ret.res.tag = "Ok"
    /\ auction_state.history # <<>>
    /\ Len(state.ledger.history) >= 2
    /\ LET info == auction_state.history[Len(auction_state.history)]
           one == state.ledger.history[Len(state.ledger.history) - 1]
           two == last_record
       IN  /\ info.auction_id = Len(auction_state.history) - 1
           /\ info.first_transaction_id = one.index
           /\ info.last_transaction_id = two.index
           /\ two.index = one.index + 1
           /\ one.operation = "Auction"
           /\ two.operation = "Auction"
           /\ one.to # two.to
           /\ one.from = one.to
           /\ two.from = two.to
           /\ one.amount = 0
           /\ two.amount = 0
           /\ info.tokens_distributed = 0
           /\ balance_of(state.balances, auction_principal) > 0

\* The ids of the retained records.
RetainedIds(ledger) == {ledger.history[i].index : i \in 1..Len(ledger.history)}

\* The key set of PendingNotifications is exactly the set of retained ids.
C36_KeysAreRetainedIds ==
    /\ DOMAIN state.ledger.notifications = RetainedIds(state.ledger)
    /\ RetainedIds(state.ledger)
           = state.ledger.vec_offset..(state.ledger.vec_offset + Len(state.ledger.history) - 1)

\* A step creates an entry "no recipient" for every id it appends and removes
\* the entries of the records it discards, and no other.
C36_AppendCreatesTruncationRemoves ==
    /\ \A id \in len(state.ledger)..(len(state'.ledger) - 1) :
          id \in RetainedIds(state'.ledger) => state'.ledger.notifications[id] = "None"
    /\ DOMAIN state.ledger.notifications \ DOMAIN state'.ledger.notifications
           = RetainedIds(state.ledger) \ RetainedIds(state'.ledger)

\* C36: after any sequence of appends, truncations included, the key set of
\* PendingNotifications is exactly the set of retained TxIds: every append
\* creates an entry for the new id initialised to 'no recipient', and a
\* truncation removes exactly the entries of the discarded records.
C36_NotificationsFollowHistory ==
    [](C36_KeysAreRetainedIds) /\ [][C36_AppendCreatesTruncationRemoves]_vars

\* C36 witness: two batches have been truncated and the three retained
\* records are the keys of the notifications, each with no recipient.
C36_Witness ==
    /\ state.ledger.vec_offset = 2 * HISTORY_REMOVAL_BATCH_SIZE
    /\ Len(state.ledger.history) = MAX_HISTORY_LENGTH + HISTORY_REMOVAL_BATCH_SIZE
    /\ DOMAIN state.ledger.notifications
           = (2 * HISTORY_REMOVAL_BATCH_SIZE)..(len(state.ledger) - 1)
    /\ \A id \in DOMAIN state.ledger.notifications : state.ledger.notifications[id] = "None"

\* The pages a client collects from the unchanged ledger: get_transactions
\* (who, k, start), then again from each `next` until it is None, through the
\* endpoint (via_api) or on the ledger itself.  `open` tells that `next` was
\* still set after `fuel` further pages.
RECURSIVE Pages(_, _, _, _, _)
Pages(via_api, who, k, start, fuel) ==
    LET page == IF via_api THEN api_get_transactions(state, who, k, start)
                ELSE get_transactions(state.ledger, who, k, start)
    IN  IF page.next = None THEN [records |-> page.result, open |-> FALSE]
        ELSE IF fuel = 0 THEN [records |-> page.result, open |-> TRUE]
        ELSE LET rest == Pages(via_api, who, k, page.next, fuel - 1) IN
             [records |-> page.result \o rest.records, open |-> rest.open]

\* C37: pagination is complete and duplicate-free: on an unchanged ledger,
\* get_transactions(who, k, None) with k >= 1 followed by get_transactions(who,
\* k, next) until next is None returns every retained record matching who
\* exactly once, in strictly descending index order across the pages.
C37_PaginationIsComplete ==
    \A via_api \in BOOLEAN, who \in AnyWho, k \in AnyCount \ {0} :
        LET all == Pages(via_api, who, k, None, Len(state.ledger.history))
            records == all.records
        IN  /\ ~all.open
            /\ \A i \in 1..(Len(records) - 1) : records[i].index > records[i + 1].index
            /\ {records[i] : i \in 1..Len(records)}
                   = {state.ledger.history[i] : i \in Matching(who, None)}
            /\ Len(records) = Cardinality(Matching(who, None))

\* C37 witness: after a truncation, three records are retained, two of them
\* john's with another in between; pages of one record take two calls to
\* list john's records and three to list all.
C37_Witness ==
    /\ state.ledger.vec_offset > 0
    /\ Len(state.ledger.history) = 3
    /\ Matching(john, None) = {1, 3}
    /\ get_transactions(state.ledger, john, 1, None).next = state.ledger.history[1].index
    /\ Len(Pages(FALSE, john, 1, None, 3).records) = 2
    /\ get_transactions(state.ledger, NoPrincipal, 1, None).next
           = state.ledger.history[2].index
    /\ Len(Pages(TRUE, NoPrincipal, 1, None, 3).records) = 3

\* Cycles sent along with a bid, amounts below MIN_BIDDING_AMOUNT included.
AnyCycles == 0..(MIN_BIDDING_AMOUNT + 2)

\* The cycles bidder has bid since the last auction.
BidOf(a, bidder) ==
    IF bidder \in DOMAIN a.bidding_state.bids THEN a.bidding_state.bids[bidder] ELSE 0

\* C38: bid_cycles with fewer than MIN_BIDDING_AMOUNT cycles returns
\* BiddingTooSmall and changes nothing; accepted cycles are added to the
\* bidder's entry and to cycles_since_auction; a successful auction resets
\* bids to empty and cycles_since_auction to 0; so in every reachable state
\* cycles_since_auction equals the sum of all bids.
C38_BidAccounting ==
    LET bidding == auction_state.bidding_state IN
    /\ bidding.cycles_since_auction = SumOver(bidding.bids, DOMAIN bidding.bids)
    /\ \A bidder \in Users, cycles \in AnyCycles :
          LET r == bid_cycles(auction_state, bidder, cycles) IN
          IF cycles < MIN_BIDDING_AMOUNT
          THEN r.err = "BiddingTooSmall" /\ r.auction_state = auction_state
          ELSE /\ r.err = ""
               /\ BidOf(r.auction_state, bidder) = BidOf(auction_state, bidder) + cycles
               /\ r.auction_state.bidding_state.cycles_since_auction
                      = bidding.cycles_since_auction + cycles
               /\ \A other \in Users \ {bidder} :
                      BidOf(r.auction_state, other) = BidOf(auction_state, other)
               /\ DOMAIN r.auction_state.bidding_state.bids = DOMAIN bidding.bids \cup {bidder}
               /\ r.auction_state.history = auction_state.history
    /\ \A order \in Orders(DOMAIN bidding.bids), new_fee_ratio \in FeeRatios :
          LET r == run_auction(state, auction_state, order, new_fee_ratio) IN
          r.res.tag = "Ok" =>
              /\ r.auction_state.bidding_state.bids = EmptyMap
              /\ r.auction_state.bidding_state.cycles_since_auction = 0

\* C38 witness: after a settled auction, one bidder has bid twice and another
\* once, and cycles_since_auction is the sum of the two entries.
C38_Witness ==
    /\ ret.op = "bid_cycles"
    /\ auction_state.history # <<>>
    /\ DOMAIN auction_state.bidding_state.bids = {alice, bob}
    /\ auction_state.bidding_state.bids[alice] = 4
    /\ auction_state.bidding_state.bids[bob] = 2
    /\ auction_state.bidding_state.cycles_since_auction = 6

\* Amounts moved: nothing, the smallest amounts, the initial supply and the
\* largest amount.
SomeAmounts == {0, 1, 2, 3, MAX_TOKENS}

\* The principals other than the auction principal whose balance is lower
\* after the call with receipt r.
Decreased(r) ==
    {p \in Users : balance_of(r.state.balances, p) < balance_of(state.balances, p)}

\* C39: a principal's tokens move only with its authority: in any single
\* operation the balance of a principal p other than the auction principal
\* decreases only if p is the caller (transfer, transfer_include_fee,
\* batch_transfer, the fee of approve, burn of own tokens), or the caller is a
\* spender with allowance(p, caller) >= amount + fee calling transfer_from, or
\* the caller is the owner calling burn(Some(p), _).
C39_TokensMoveWithAuthority ==
    /\ \A caller \in AnyCaller, to \in AnyPrincipal, amount \in SomeAmounts :
          /\ \A fee_limit \in FeeLimits :
                Decreased(api_transfer(state, auction_state, caller, to, amount, fee_limit))
                    \subseteq {caller}
          /\ Decreased(api_transfer_include_fee(state, auction_state, caller, to, amount))
                 \subseteq {caller}
          /\ Decreased(api_approve(state, auction_state, caller, to, amount))
                 \subseteq {caller}
          /\ Decreased(api_mint(state, caller, to, amount)) = {}
          /\ \A from \in AnyCaller :
                LET r == api_transfer_from(state, auction_state, caller, from, to, amount)
                IN  /\ Decreased(r) \subseteq {from}
                    /\ from \in Decreased(r) =>
                           \/ from = caller
                           \/ allowance(state.allowances, from, caller)
                                  >= amount + state.stats.fee
          /\ LET r == api_burn(state, caller, to, amount)
             IN  /\ Decreased(r) \subseteq {to}
                 /\ to \in Decreased(r) => to = caller \/ caller = state.stats.owner
    /\ \A caller \in AnyCaller, amount \in SomeAmounts :
          Decreased(api_burn(state, caller, NoPrincipal, amount)) \subseteq {caller}
    /\ \A caller \in AnyCaller, transfers \in Batches :
          Decreased(api_batch_transfer(state, auction_state, caller, transfers))
              \subseteq {caller}
    /\ \A order \in Orders(DOMAIN auction_state.bidding_state.bids),
          new_fee_ratio \in FeeRatios :
          Decreased(run_auction(state, auction_state, order, new_fee_ratio)) = {}

\* C39 witness: a spender has just moved tokens of another principal by
\* transfer_from, within the allowance it had; in the state reached, a
\* principal without an allowance cannot move them, the spender cannot burn
\* the recipient's tokens and the owner can.
C39_Witness ==
    /\ ret.op = "transfer_from"
    /\ ret.res.tag = "Ok"
    /\ last_record.operation = "TransferFrom"
    /\ last_record.caller # last_record.from
    /\ last_record.amount > 0
    /\ balance_of(state.balances, last_record.from) > 0
    /\ last_record.to # state.stats.owner
    /\ Decreased(api_transfer_from(state, auction_state, john, last_record.from, bob, 1))
           = {}
    /\ Decreased(api_burn(state, last_record.caller, last_record.to, 1)) = {}
    /\ Decreased(api_burn(state, state.stats.owner, last_record.to, 1))
           = {last_record.to}

\* The balance of the auction principal is not lower after the call with
\* receipt r.
PoolKept(r) ==
    balance_of(r.state.balances, auction_principal)
        >= balance_of(state.balances, auction_principal)

\* C40 as stated: the balance of the auction principal never decreases in any
\* operation other than auction disbursement, whoever the caller is: no
\* transfer, transfer_from, approve, mint or burn call reduces it.
C40_PoolOnlyLeavesByAuction ==
    /\ \A caller \in AnyCaller, to \in AnyPrincipal, amount \in SomeAmounts :
          /\ \A fee_limit \in FeeLimits :
                PoolKept(api_transfer(state, auction_state, caller, to, amount, fee_limit))
          /\ \A from \in AnyPrincipal :
                PoolKept(api_transfer_from(state, auction_state, caller, from, to, amount))
          /\ PoolKept(api_approve(state, auction_state, caller, to, amount))
          /\ PoolKept(api_mint(state, caller, to, amount))
          /\ PoolKept(api_burn(state, caller, to, amount))
    /\ \A caller \in AnyCaller, amount \in SomeAmounts :
          PoolKept(api_burn(state, caller, NoPrincipal, amount))

\* C40: the balance of the auction principal never decreases in any operation
\* other than auction disbursement and the owner's burn(Some(auction
\* principal), amount), which lowers it by amount: no transfer, transfer_from,
\* approve or mint call, no burn of other tokens and no burn by a caller other
\* than the owner reduces it.
C40_PoolOnlyLeavesByAuctionOrOwnerBurn ==
    /\ \A caller \in AnyCaller, to \in AnyPrincipal, amount \in SomeAmounts :
          /\ \A fee_limit \in FeeLimits :
                PoolKept(api_transfer(state, auction_state, caller, to, amount, fee_limit))
          /\ \A from \in AnyPrincipal :
                PoolKept(api_transfer_from(state, auction_state, caller, from, to, amount))
          /\ PoolKept(api_approve(state, auction_state, caller, to, amount))
          /\ PoolKept(api_mint(state, caller, to, amount))
          /\ LET r == api_burn(state, caller, to, amount)
             IN  \/ PoolKept(r)
                 \/ /\ to = auction_principal
                    /\ caller = state.stats.owner
                    /\ balance_of(r.state.balances, auction_principal)
                           = balance_of(state.balances, auction_principal) - amount
    /\ \A caller \in AnyCaller, amount \in SomeAmounts :
          PoolKept(api_burn(state, caller, NoPrincipal, amount))

\* C40 witness: the owner has just burned tokens of the auction principal,
\* which an earlier operation had put into the pool.
C40_Witness ==
    /\ ret.op = "burn"
    /\ ret.res.tag = "Ok"
    /\ last_record.operation = "Burn"
    /\ last_record.from = auction_principal
    /\ last_record.caller = state.stats.owner
    /\ last_record.amount > 0

====
